---- MODULE Spec2Model ----
(***************************************************************************)
(* A model of the imap-codec lexical primitives (rfc3501/core.rs), the     *)
(* section grammar (parse/section.rs) and the response encoder             *)
(* (types/response.rs).                                                    *)
(*                                                                         *)
(* Every parser is a pure function from a byte buffer to one of four       *)
(* outcomes (nom's IResult): Ok(value, remainder), Incomplete, Error       *)
(* (recoverable, "malformed") and Failure.  The state machine is the       *)
(* caller of section 5 of the specification: it accumulates bytes and      *)
(* re-invokes the parser on the longer buffer.                             *)
(*                                                                         *)
(* Bytes are the integers 0..255.  A u32 is kept as two 16-bit limbs       *)
(* <<hi, lo>> so that the arithmetic of str::parse::<u32> keeps its width. *)
(***************************************************************************)
EXTENDS Integers, Sequences, FiniteSets, TLC

VARIABLES parser, buf, fed, out, encoded, reparsed

vars == <<parser, buf, fed, out, encoded, reparsed>>

----------------------------------------------------------------------------
\* Bounds of the model.

\* How many chunks the caller appends to the buffer it started with.
MaxFeed == 4

----------------------------------------------------------------------------
\* Bytes the code names.

NUL == 0
LF == 10
CR == 13
SP == 32
DQUOTE == 34
BACKSLASH == 92
LBRACE == 123
RBRACE == 125
RBRACKET == 93

Byte == 0..255

----------------------------------------------------------------------------
\* Sequences of bytes.

Take(s, n) == SubSeq(s, 1, n)

Drop(s, n) == SubSeq(s, n + 1, Len(s))

Min(a, b) == IF a <= b THEN a ELSE b

\* The length of the longest prefix of s whose bytes are all in S
\* (Iterator::position of the first byte failing the predicate).
RunLen(S, s) ==
  IF \A k \in 1..Len(s) : s[k] \in S
  THEN Len(s)
  ELSE (CHOOSE k \in 1..Len(s) : s[k] \notin S /\ \A j \in 1..(k - 1) : s[j] \in S) - 1

----------------------------------------------------------------------------
\* nom::IResult

Ok(v, r) == [kind |-> "Ok", val |-> v, rem |-> r]

Incomplete == [kind |-> "Incomplete"]

Error == [kind |-> "Error"]

Failure == [kind |-> "Failure"]

NotRun == [kind |-> "NotRun"]

----------------------------------------------------------------------------
\* nom combinators, streaming variants.

lowercase_byte(b) == IF b \in 65..90 THEN b + 32 ELSE b

LowerSeq(s) == [k \in 1..Len(s) |-> lowercase_byte(s[k])]

\* nom::bytes::streaming::tag: Compare::compare on the common prefix first,
\* Incomplete only when the input is a proper prefix of the tag.
tag(t, input) ==
  LET n == Min(Len(t), Len(input)) IN
  IF Take(input, n) # Take(t, n) THEN Error
  ELSE IF Len(input) < Len(t) THEN Incomplete
  ELSE Ok(Take(input, Len(t)), Drop(input, Len(t)))

\* tag_no_case, were it to hand back the lowercased input.
tag_no_case_lowered(t, input) ==
  LET n == Min(Len(t), Len(input)) IN
  IF LowerSeq(Take(input, n)) # LowerSeq(Take(t, n)) THEN Error
  ELSE IF Len(input) < Len(t) THEN Incomplete
  ELSE Ok(LowerSeq(Take(input, Len(t))), LowerSeq(Drop(input, Len(t))))

\* nom::bytes::streaming::tag_no_case
tag_no_case(t, input) ==
  LET n == Min(Len(t), Len(input)) IN
  IF LowerSeq(Take(input, n)) # LowerSeq(Take(t, n)) THEN Error
  ELSE IF Len(input) < Len(t) THEN Incomplete
  ELSE Ok(Take(input, Len(t)), Drop(input, Len(t)))

\* nom::bytes::streaming::take_while1 (split_at_position1): Incomplete when
\* no byte ends the run, Error when the run is empty.
take_while1(S, input) ==
  LET k == RunLen(S, input) IN
  IF k = Len(input) THEN Incomplete
  ELSE IF k = 0 THEN Error
  ELSE Ok(Take(input, k), Drop(input, k))

\* nom::bytes::streaming::take; the count is a u32 <<hi, lo>>.  A buffer of
\* the model is always shorter than 65536 bytes.
take(count, input) ==
  IF count[1] > 0 \/ count[2] > Len(input) THEN Incomplete
  ELSE Ok(Take(input, count[2]), Drop(input, count[2]))

----------------------------------------------------------------------------
\* abnf_core::streaming

is_DIGIT(b) == b \in 48..57

is_CHAR(b) == b \in 1..127

is_CTL(b) == b \in 0..31 \/ b = 127

Digits == {b \in Byte : is_DIGIT(b)}

digit1(input) == take_while1(Digits, input)

CRLF(input) == tag(<<CR, LF>>, input)

DQUOTE_(input) == tag(<<DQUOTE>>, input)

----------------------------------------------------------------------------
\* u32 arithmetic on 16-bit limbs.

Limb == 65536

\* A multiplication and addition that wrap modulo 2^32 instead of failing.
wrapping_mul10_add(v, d) ==
  LET lo == v[2] * 10 + d
      hi == v[1] * 10 + (lo \div Limb)
  IN <<hi % Limb, lo % Limb>>

\* u32::checked_mul(10) followed by u32::checked_add(d): <<>> is None.
checked_mul10_add(v, d) ==
  LET lo == v[2] * 10 + d
      hi == v[1] * 10 + (lo \div Limb)
  IN IF hi >= Limb THEN <<>> ELSE <<hi, lo % Limb>>

\* One digit more: an overflow stays an overflow.
str_parse_digit(p, d) == IF p = <<>> THEN <<>> ELSE checked_mul10_add(p, d)

\* str::parse::<u32> on a non-empty run of ASCII digits: <<>> is the
\* PosOverflow error.
RECURSIVE str_parse_u32(_)
str_parse_u32(ds) ==
  IF ds = <<>> THEN <<0, 0>>
  ELSE str_parse_digit(str_parse_u32(Take(ds, Len(ds) - 1)), ds[Len(ds)] - 48)

\* <u32 as Display>::fmt: the decimal digits, no leading zero.
u32_div10(v) == <<v[1] \div 10, ((v[1] % 10) * Limb + v[2]) \div 10>>

u32_mod10(v) == ((v[1] % 10) * Limb + v[2]) % 10

RECURSIVE u32_to_string(_)
u32_to_string(v) ==
  IF u32_div10(v) = <<0, 0>> THEN <<48 + u32_mod10(v)>>
  ELSE u32_to_string(u32_div10(v)) \o <<48 + u32_mod10(v)>>

----------------------------------------------------------------------------
\* nom::branch::alt and nom::combinator::map.  A parser's steps are written
\* as operators on the outcome of the step before: each returns that outcome
\* unchanged unless it is Ok, as the ? operator and nom's sequences do.

\* alt((first, second)): the second parser runs only on an Error of the
\* first; Incomplete and Failure of the first are returned at once.
alt(first, second) == IF first.kind = "Error" THEN second ELSE first

----------------------------------------------------------------------------
\* rfc3501/core.rs: numbers.

\* map_res(_, str::parse::<u32>) on the digits digit1 returned.
number_parsed(d) ==
  IF d.kind # "Ok" THEN d
  ELSE IF str_parse_u32(d.val) = <<>> THEN Error
  ELSE Ok(str_parse_u32(d.val), d.rem)

\* number = 1*DIGIT
number(input) == number_parsed(digit1(input))

\* NonZeroU32::new, were it to accept zero.
NonZeroU32_new_any(v) == v = v

\* NonZeroU32::new
NonZeroU32_new(v) == v # <<0, 0>>

\* match NonZeroU32::new(number)
nz_number_checked(n) ==
  IF n.kind # "Ok" THEN n
  ELSE IF NonZeroU32_new(n.val) THEN n ELSE Error

\* nz-number = digit-nz *DIGIT
nz_number(input) == nz_number_checked(number(input))

----------------------------------------------------------------------------
\* rfc3501/core.rs: literals.

\* CHAR8 = %x01-ff
is_char8(b) == b # 0

\* LiteralRef::from_bytes: every byte is a CHAR8.
LiteralRef_from_bytes(data) == \A k \in 1..Len(data) : is_char8(data[k])

\* terminated(delimited(tag("{"), number, tag("}")), CRLF), step by step:
\* the CRLF after the count v.
announcement_end(v, c) == IF c.kind # "Ok" THEN c ELSE Ok(v, c.rem)

announcement_crlf(v, b) ==
  IF b.kind # "Ok" THEN b ELSE announcement_end(v, CRLF(b.rem))

announcement_rbrace(n) ==
  IF n.kind # "Ok" THEN n ELSE announcement_crlf(n.val, tag(<<RBRACE>>, n.rem))

announcement_number(a) ==
  IF a.kind # "Ok" THEN a ELSE announcement_rbrace(number(a.rem))

literal_announcement(input) == announcement_number(tag(<<LBRACE>>, input))

\* The payload without its check.
literal_data_unchecked(t) ==
  IF t.kind # "Ok" THEN t ELSE Ok(t.val, t.rem)

\* match LiteralRef::from_bytes(data)
literal_data(t) ==
  IF t.kind # "Ok" THEN t
  ELSE IF LiteralRef_from_bytes(t.val) THEN Ok(t.val, t.rem)
  ELSE Error

\* The empty remainder reported as the recoverable error.
literal_handshake_as_error(a) ==
  IF a.kind # "Ok" THEN a
  ELSE IF a.rem = <<>> THEN Error
  ELSE literal_data(take(a.val, a.rem))

\* The empty remainder left to take, as ordinary missing bytes.
literal_without_handshake(a) ==
  IF a.kind # "Ok" THEN a
  ELSE literal_data(take(a.val, a.rem))

\* One byte more than announced is taken.
literal_off_by_one(a) ==
  IF a.kind # "Ok" THEN a
  ELSE IF a.rem = <<>> THEN Failure
  ELSE literal_data(take(<<a.val[1], a.val[2] + 1>>, a.rem))

\* The Failure returned for as long as the payload is short.
literal_handshake_while_short(a) ==
  IF a.kind # "Ok" THEN a
  ELSE IF take(a.val, a.rem) = Incomplete THEN Failure
  ELSE literal_data(take(a.val, a.rem))

\* if remaining.is_empty() { return Err(Failure) }; take(number)(remaining)
literal_payload(a) ==
  IF a.kind # "Ok" THEN a
  ELSE IF a.rem = <<>> THEN Failure
  ELSE literal_data(take(a.val, a.rem))

\* literal = "{" number "}" CRLF *CHAR8
literal(input) == literal_payload(literal_announcement(input))

----------------------------------------------------------------------------
\* rfc3501/core.rs: quoted strings.

\* nom::character::streaming::one_of
one_of(S, input) ==
  IF input = <<>> THEN Incomplete
  ELSE IF input[1] \in S THEN Ok(input[1], Drop(input, 1))
  ELSE Error

\* nom::bytes::streaming::take_while_m_n(1, 1, cond)
take_while_1_1(S, input) ==
  IF input = <<>> THEN Incomplete
  ELSE IF input[1] \in S THEN Ok(Take(input, 1), Drop(input, 1))
  ELSE Error

\* nom::bytes::streaming::escaped(take_while1(normal), control_char,
\* one_of(escapable)).  The loop variable i is kept as its offset off in
\* input; escaped_normal and escaped_escapable are the two arms of the
\* loop's match, each ending in the next turn of the loop.
RECURSIVE escaped(_, _, _, _, _)
escaped_escapable(normal, control_char, escapable, input, e) ==
  IF e.kind # "Ok" THEN e
  ELSE IF e.rem = <<>> THEN Incomplete
  ELSE escaped(normal, control_char, escapable, input, Len(input) - Len(e.rem))

escaped_normal(normal, control_char, escapable, input, off, n) ==
  CASE n.kind = "Ok" ->
         IF n.rem = <<>> THEN Incomplete
         ELSE IF Len(n.rem) = Len(input) - off
              THEN Ok(Take(input, off), Drop(input, off))
              ELSE escaped(normal, control_char, escapable, input,
                           Len(input) - Len(n.rem))
    [] n.kind = "Error" ->
         IF input[off + 1] = control_char
         THEN IF 1 >= Len(input) - off THEN Incomplete
              ELSE escaped_escapable(normal, control_char, escapable, input,
                                     one_of(escapable, Drop(input, off + 1)))
         ELSE Ok(Take(input, off), Drop(input, off))
    [] OTHER -> n

escaped(normal, control_char, escapable, input, off) ==
  IF off >= Len(input) THEN Incomplete
  ELSE escaped_normal(normal, control_char, escapable, input, off,
                      take_while1(normal, Drop(input, off)))

\* TEXT-CHAR = %x01-09 / %x0B-0C / %x0E-7F
is_text_char(c) == c \in 1..9 \/ c \in 11..12 \/ c \in 14..127

\* quoted-specials = DQUOTE / "\"
is_quoted_specials(b) == b = DQUOTE \/ b = BACKSLASH

is_any_text_char_except_quoted_specials(b) ==
  is_text_char(b) /\ ~is_quoted_specials(b)

TextChars == {b \in Byte : is_text_char(b)}

QuotedSpecials == {b \in Byte : is_quoted_specials(b)}

PlainQuotedChars == {b \in Byte : is_any_text_char_except_quoted_specials(b)}

\* utils::unescape_quoted: every escape pair becomes the escaped character.
RECURSIVE unescape_quoted(_)
unescape_quoted(s) ==
  IF s = <<>> THEN <<>>
  ELSE IF s[1] = BACKSLASH /\ Len(s) >= 2
       THEN <<s[2]>> \o unescape_quoted(Drop(s, 2))
       ELSE <<s[1]>> \o unescape_quoted(Drop(s, 1))

\* tuple((DQUOTE, map_res(escaped(..), from_utf8), DQUOTE)), step by step:
\* the closing DQUOTE after the escaped run s.
quoted_end(s, b) ==
  IF b.kind # "Ok" THEN b ELSE Ok(unescape_quoted(s), b.rem)

quoted_close(e) ==
  IF e.kind # "Ok" THEN e ELSE quoted_end(e.val, DQUOTE_(e.rem))

\* A run in which a backslash escapes any text character.
quoted_run_any_escape(a) ==
  IF a.kind # "Ok" THEN a
  ELSE quoted_close(escaped(PlainQuotedChars, BACKSLASH, TextChars, a.rem, 0))

\* A run in which a backslash escapes a double quote only.
quoted_run_dquote_only(a) ==
  IF a.kind # "Ok" THEN a
  ELSE quoted_close(escaped(PlainQuotedChars, BACKSLASH, {DQUOTE}, a.rem, 0))

\* A run that is malformed, not incomplete, while no byte has ended it.
quoted_run_complete(a) ==
  IF a.kind # "Ok" THEN a
  ELSE IF escaped(PlainQuotedChars, BACKSLASH, QuotedSpecials, a.rem, 0) = Incomplete
  THEN Error
  ELSE quoted_close(escaped(PlainQuotedChars, BACKSLASH, QuotedSpecials, a.rem, 0))

\* escaped(take_while1(is_any_text_char_except_quoted_specials), '\\',
\* one_of("\\\""))
quoted_run(a) ==
  IF a.kind # "Ok" THEN a
  ELSE quoted_close(escaped(PlainQuotedChars, BACKSLASH, QuotedSpecials, a.rem, 0))

\* quoted = DQUOTE *QUOTED-CHAR DQUOTE
quoted(input) == quoted_run(DQUOTE_(input))

\* The two alternatives of quoted_char, each mapped to its character.
quoted_char_value(r) == IF r.kind # "Ok" THEN r ELSE Ok(r.val[1], r.rem)

quoted_char_escaped(t) ==
  IF t.kind # "Ok" THEN t
  ELSE quoted_char_value(take_while_1_1(QuotedSpecials, t.rem))

\* QUOTED-CHAR = <any TEXT-CHAR except quoted-specials> / "\" quoted-specials
quoted_char(input) ==
  alt(quoted_char_value(take_while_1_1(PlainQuotedChars, input)),
      quoted_char_escaped(tag(<<BACKSLASH>>, input)))

----------------------------------------------------------------------------
\* rfc3501/core.rs: atoms, strings, nil, text.

\* list-wildcards = "%" / "*"
is_list_wildcards(b) == b = 37 \/ b = 42

\* resp-specials = "]"
is_resp_specials(b) == b = RBRACKET

\* atom-specials, were resp-specials left out of them.
is_atom_specials_without_resp(b) ==
  \/ b \in {40, 41, LBRACE, SP}
  \/ is_CTL(b)
  \/ is_list_wildcards(b)
  \/ is_quoted_specials(b)

\* atom-specials = "(" / ")" / "{" / SP / CTL / list-wildcards /
\*                 quoted-specials / resp-specials
is_atom_specials(b) ==
  \/ b \in {40, 41, LBRACE, SP}
  \/ is_CTL(b)
  \/ is_list_wildcards(b)
  \/ is_quoted_specials(b)
  \/ is_resp_specials(b)

\* ATOM-CHAR = <any CHAR except atom-specials>
is_atom_char(b) == is_CHAR(b) /\ ~is_atom_specials(b)

\* ASTRING-CHAR = ATOM-CHAR / resp-specials
is_astring_char(b) == is_atom_char(b) \/ is_resp_specials(b)

AtomChars == {b \in Byte : is_atom_char(b)}

AStringChars == {b \in Byte : is_astring_char(b)}

\* atom = 1*ATOM-CHAR
atom(input) == take_while1(AtomChars, input)

\* AtomRef::try_from: a non-empty run of ATOM-CHARs.
AtomRef_try_from(bytes) ==
  bytes # <<>> /\ \A k \in 1..Len(bytes) : is_atom_char(bytes[k])

\* Result::unwrap on an Err aborts the call.
Panic == [kind |-> "Panic"]

\* map(quoted, IStringRef::Quoted)
IStringRef_Quoted(q) ==
  IF q.kind # "Ok" THEN q ELSE Ok([t |-> "Quoted", s |-> q.val], q.rem)

\* map(literal, IStringRef::Literal)
IStringRef_Literal(l) ==
  IF l.kind # "Ok" THEN l ELSE Ok([t |-> "Literal", s |-> l.val], l.rem)

\* string = quoted / literal
string(input) ==
  alt(IStringRef_Quoted(quoted(input)), IStringRef_Literal(literal(input)))

\* AStringRef::Atom(AtomRef::try_from(bytes).unwrap())
AStringRef_Atom(a) ==
  IF a.kind # "Ok" THEN a
  ELSE IF AtomRef_try_from(a.val) THEN Ok([t |-> "Atom", s |-> a.val], a.rem)
  ELSE Panic

\* astring = 1*ASTRING-CHAR / string
astring(input) ==
  alt(AStringRef_Atom(take_while1(AStringChars, input)), string(input))

\* nil, were it to refuse NIL before an atom character.
nil_not_before_atom_char(input) ==
  IF Len(input) > 3 /\ is_atom_char(input[4]) /\ tag_no_case(<<78, 73, 76>>, input).kind = "Ok"
  THEN Error
  ELSE tag_no_case(<<78, 73, 76>>, input)

\* nil = "NIL"
nil(input) == tag_no_case(<<78, 73, 76>>, input)

\* map(string, |item| NStringRef(Some(item)))
NStringRef_Some(s) == IF s.kind # "Ok" THEN s ELSE Ok(<<s.val>>, s.rem)

\* map(nil, |_| NStringRef(None))
NStringRef_None(n) == IF n.kind # "Ok" THEN n ELSE Ok(<<>>, n.rem)

\* nstring = string / nil
nstring(input) ==
  alt(NStringRef_Some(string(input)), NStringRef_None(nil(input)))

\* text = 1*TEXT-CHAR
text(input) == take_while1(TextChars, input)

\* tag = 1*<any ASTRING-CHAR except "+">
tag_imap(input) == take_while1(AStringChars \ {43}, input)

----------------------------------------------------------------------------
\* The caller: one parser, a growing buffer.

Numbers == {"number", "nz_number"}

Strings == {"string", "astring", "nstring"}

Primitives == Numbers \cup Strings \cup {"atom", "quoted", "literal", "nil", "text"}

Run(p, input) ==
  CASE p = "number" -> number(input)
    [] p = "nz_number" -> nz_number(input)
    [] p = "atom" -> atom(input)
    [] p = "quoted" -> quoted(input)
    [] p = "literal" -> literal(input)
    [] p = "nil" -> nil(input)
    [] p = "text" -> text(input)
    [] p = "string" -> string(input)
    [] p = "astring" -> astring(input)
    [] p = "nstring" -> nstring(input)

\* The bytes the transport delivers for each parser, one byte per chunk:
\* digits 0 5 6 9 and ?; { } CR LF 2 NUL a; " \ a CR NUL; N i L x SP;
\* a SP ( * ] NUL; a CR LF NUL and byte 128; " \ a { CR LF NUL L.
Chunks(p) ==
  CASE p \in Numbers -> {<<48>>, <<53>>, <<54>>, <<57>>, <<63>>}
    [] p = "literal" -> {<<LBRACE>>, <<RBRACE>>, <<CR>>, <<LF>>, <<50>>, <<NUL>>, <<97>>}
    [] p = "quoted" -> {<<DQUOTE>>, <<BACKSLASH>>, <<97>>, <<CR>>, <<NUL>>}
    [] p = "nil" -> {<<78>>, <<105>>, <<76>>, <<120>>, <<SP>>}
    [] p = "atom" -> {<<97>>, <<SP>>, <<40>>, <<42>>, <<RBRACKET>>, <<NUL>>}
    [] p = "text" -> {<<97>>, <<CR>>, <<LF>>, <<NUL>>, <<128>>}
    [] p \in Strings ->
         {<<DQUOTE>>, <<BACKSLASH>>, <<97>>, <<LBRACE>>, <<CR>>, <<LF>>, <<NUL>>, <<76>>}

\* The buffers the caller starts with: the empty buffer, and prefixes that
\* bring a boundary within reach (429496729, {2}, {2}CRLF, {0}CR,
\* "Hello \"World\, {1}CR, NI).
Seeds(p) ==
  CASE p \in Numbers ->
         {<<>>, <<52, 50, 57, 52, 57, 54, 55, 50, 57>>}
    [] p = "literal" ->
         {<<>>, <<LBRACE, 50, RBRACE>>, <<LBRACE, 50, RBRACE, CR, LF>>,
          <<LBRACE, 48, RBRACE, CR>>}
    [] p = "quoted" ->
         {<<>>, <<DQUOTE, 72, 101, 108, 108, 111, SP, BACKSLASH, DQUOTE,
                  87, 111, 114, 108, 100, BACKSLASH>>}
    [] p \in Strings -> {<<>>, <<LBRACE, 49, RBRACE, CR>>, <<78, 73>>}
    [] OTHER -> {<<>>}

InitFor(ps) ==
  /\ parser \in ps
  /\ buf \in Seeds(parser)
  /\ fed = 0
  /\ out = Run(parser, buf)
  /\ encoded = <<>>
  /\ reparsed = NotRun

Init == InitFor(Primitives)

\* More bytes arrive and the caller re-invokes the parser on the whole buffer.
Feed ==
  /\ fed < MaxFeed
  /\ \E c \in Chunks(parser) :
       /\ buf' = buf \o c
       /\ out' = Run(parser, buf \o c)
  /\ fed' = fed + 1
  /\ UNCHANGED <<parser, encoded, reparsed>>

Next == Feed

\* utils::escape_quoted: a backslash before every double quote and backslash.
RECURSIVE escape_quoted(_)
escape_quoted(s) ==
  IF s = <<>> THEN <<>>
  ELSE IF is_quoted_specials(s[1])
       THEN <<BACKSLASH, s[1]>> \o escape_quoted(Drop(s, 1))
       ELSE <<s[1]>> \o escape_quoted(Drop(s, 1))

\* A string written as a quoted string.
encode_quoted(s) == <<DQUOTE>> \o escape_quoted(s) \o <<DQUOTE>>

\* Legal content of a quoted string, byte by byte: a " \ SP 0x01 0x7f.
QuotedContent == {<<97>>, <<DQUOTE>>, <<BACKSLASH>>, <<SP>>, <<1>>, <<127>>}

\* A string is encoded as a quoted string and the encoding is parsed: buf
\* is the string, encoded its encoding, reparsed the outcome of quoted.
InitQuotedRoundTrip ==
  /\ parser = "quoted"
  /\ buf = <<>>
  /\ fed = 0
  /\ out = NotRun
  /\ encoded = encode_quoted(buf)
  /\ reparsed = quoted(encoded)

QuotedRoundTrip ==
  /\ fed < MaxFeed
  /\ \E c \in QuotedContent :
       /\ buf' = buf \o c
       /\ encoded' = encode_quoted(buf \o c)
       /\ reparsed' = quoted(encode_quoted(buf \o c))
  /\ fed' = fed + 1
  /\ UNCHANGED <<parser, out>>

NextQuotedRoundTrip == QuotedRoundTrip

SpecQuotedRoundTrip == InitQuotedRoundTrip /\ [][NextQuotedRoundTrip]_vars

Spec == Init /\ [][Next]_vars

\* The same caller, one family of parsers at a time.
SpecNumbers == InitFor(Numbers) /\ [][Next]_vars

SpecLiteral == InitFor({"literal"}) /\ [][Next]_vars

SpecQuoted == InitFor({"quoted"}) /\ [][Next]_vars

SpecStrings == InitFor(Strings \cup {"literal"}) /\ [][Next]_vars

----------------------------------------------------------------------------
\* Responses.  parse::response::response is written from the wire forms of
\* the response grammar (RFC 3501 section 9), over the parsers of core.rs,
\* for status responses, continuation requests with text, and the SEARCH,
\* EXISTS and LIST data responses; a LIST carries no mailbox attributes.
\* A value is a record whose field type names the variant.

\* terminated(_, tag(t)) and the tail of preceded(tag(t), _): the value of r
\* is kept, the bytes t are consumed.
keep(r, n) == IF n.kind # "Ok" THEN n ELSE Ok(r.val, n.rem)

followed(r, t) == IF r.kind # "Ok" THEN r ELSE keep(r, tag(t, r.rem))

\* value(v, p)
value(v, r) == IF r.kind # "Ok" THEN r ELSE Ok(v, r.rem)

\* opt(p)
opt(r, input) ==
  IF r.kind = "Error" THEN Ok(<<>>, input)
  ELSE IF r.kind # "Ok" THEN r
  ELSE Ok(<<r.val>>, r.rem)

\* resp-text-code = "ALERT" / "READ-WRITE" / ...
resp_text_code(input) ==
  alt(value([c |-> "Alert"], tag_no_case(<<65, 76, 69, 82, 84>>, input)),
      value([c |-> "ReadWrite"], tag_no_case(<<82, 69, 65, 68, 45, 87, 82, 73, 84, 69>>, input)))

code_after_bracket(b) == IF b.kind # "Ok" THEN b ELSE resp_text_code(b.rem)

\* "[" resp-text-code "]" SP
code_bracketed(input) ==
  followed(code_after_bracket(tag(<<91>>, input)), <<RBRACKET, SP>>)

with_code(code, t) ==
  IF t.kind # "Ok" THEN t ELSE Ok([code |-> code, text |-> t.val], t.rem)

resp_text_text(c) == IF c.kind # "Ok" THEN c ELSE with_code(c.val, text(c.rem))

\* resp-text = ["[" resp-text-code "]" SP] text
resp_text(input) == resp_text_text(opt(code_bracketed(input), input))

\* "OK" / "NO" / "BAD"
status_word(input) ==
  alt(alt(value("Ok", tag_no_case(<<79, 75>>, input)),
          value("No", tag_no_case(<<78, 79>>, input))),
      value("Bad", tag_no_case(<<66, 65, 68>>, input)))

status_of(name, rt) ==
  IF rt.kind # "Ok" THEN rt
  ELSE Ok([type |-> "Status", status |-> name, tag |-> <<>>,
           code |-> rt.val.code, text |-> rt.val.text], rt.rem)

status_text(w) == IF w.kind # "Ok" THEN w ELSE status_of(w.val, resp_text(w.rem))

\* resp-cond-state = ("OK" / "NO" / "BAD") SP resp-text
resp_cond_state(input) == status_text(followed(status_word(input), <<SP>>))

\* resp-cond-bye = "BYE" SP resp-text
resp_cond_bye(input) ==
  status_text(followed(value("Bye", tag_no_case(<<66, 89, 69>>, input)), <<SP>>))

\* "SEARCH" *(SP nz-number): many0 stops at the first element that is an
\* Error and keeps the input before it.
nz_number_after(s) == IF s.kind # "Ok" THEN s ELSE nz_number(s.rem)

RECURSIVE search_numbers(_, _)
search_next(acc, input, e) ==
  IF e.kind = "Error" THEN Ok(acc, input)
  ELSE IF e.kind # "Ok" THEN e
  ELSE search_numbers(Append(acc, e.val), e.rem)

search_numbers(acc, input) ==
  search_next(acc, input, nz_number_after(tag(<<SP>>, input)))

search_of(n) ==
  IF n.kind # "Ok" THEN n ELSE Ok([type |-> "Search", seqs |-> n.val], n.rem)

search_after(k) == IF k.kind # "Ok" THEN k ELSE search_of(search_numbers(<<>>, k.rem))

search(input) == search_after(tag_no_case(<<83, 69, 65, 82, 67, 72>>, input))

\* number SP "EXISTS"
exists_of(n) ==
  IF n.kind # "Ok" THEN n ELSE Ok([type |-> "Exists", count |-> n.val], n.rem)

exists(input) == exists_of(followed(number(input), <<32, 69, 88, 73, 83, 84, 83>>))

\* DQUOTE QUOTED-CHAR DQUOTE / nil
delimiter_char(d) == IF d.kind # "Ok" THEN d ELSE quoted_char(d.rem)

delimiter_some(c) == IF c.kind # "Ok" THEN c ELSE Ok(<<c.val>>, c.rem)

delimiter(input) ==
  alt(delimiter_some(followed(delimiter_char(DQUOTE_(input)), <<DQUOTE>>)),
      value(<<>>, nil(input)))

\* mailbox = astring
list_of(d, m) ==
  IF m.kind # "Ok" THEN m
  ELSE Ok([type |-> "List", items |-> <<>>, delimiter |-> d, mailbox |-> m.val],
          m.rem)

list_mailbox(d) == IF d.kind # "Ok" THEN d ELSE list_of(d.val, astring(d.rem))

list_delimiter(l) == IF l.kind # "Ok" THEN l ELSE delimiter(l.rem)

\* "LIST" SP "(" ")" SP (DQUOTE QUOTED-CHAR DQUOTE / nil) SP mailbox
mailbox_list(input) ==
  list_mailbox(followed(
    list_delimiter(followed(tag_no_case(<<76, 73, 83, 84>>, input), <<32, 40, 41, 32>>)), <<SP>>))

mailbox_data(input) == alt(alt(mailbox_list(input), search(input)), exists(input))

response_data_body(s) ==
  IF s.kind # "Ok" THEN s
  ELSE alt(alt(resp_cond_state(s.rem), resp_cond_bye(s.rem)), mailbox_data(s.rem))

\* response-data = "*" SP (resp-cond-state / resp-cond-bye / mailbox-data /
\* message-data) CRLF
response_data(input) ==
  followed(response_data_body(tag(<<42, 32>>, input)), <<CR, LF>>)

with_tag(t, s) ==
  IF s.kind # "Ok" THEN s ELSE Ok([s.val EXCEPT !.tag = <<t>>], s.rem)

tagged_state(t) == IF t.kind # "Ok" THEN t ELSE with_tag(t.val, resp_cond_state(t.rem))

\* response-tagged = tag SP resp-cond-state CRLF
response_tagged(input) ==
  followed(tagged_state(followed(tag_imap(input), <<SP>>)), <<CR, LF>>)

continuation_of(rt) ==
  IF rt.kind # "Ok" THEN rt
  ELSE Ok([type |-> "Continuation", code |-> rt.val.code, text |-> rt.val.text],
          rt.rem)

continue_text(p) == IF p.kind # "Ok" THEN p ELSE continuation_of(resp_text(p.rem))

\* continue-req = "+" SP resp-text CRLF
continue_req(input) == followed(continue_text(tag(<<43, 32>>, input)), <<CR, LF>>)

\* response = continue-req / response-data / response-tagged
response(input) ==
  alt(alt(continue_req(input), response_data(input)), response_tagged(input))

----------------------------------------------------------------------------
\* types/response.rs: the encoder.  A list item whose Display is outside
\* this file (Capability, Flag, FlagNameAttribute, Charset) is kept as the
\* bytes it displays as.

\* utils::join, join_serializable, join_bytes: the items, sep between them.
RECURSIVE join(_, _)
join(items, sep) ==
  IF items = <<>> THEN <<>>
  ELSE IF Len(items) = 1 THEN items[1]
  ELSE items[1] \o sep \o join(Drop(items, 1), sep)

\* join, were it to put the separator after every item.
RECURSIVE join_trailing(_, _)
join_trailing(items, sep) ==
  IF items = <<>> THEN <<>>
  ELSE items[1] \o sep \o join_trailing(Drop(items, 1), sep)

\* Option<String> as the bytes after a space, nothing when None
Code_Other_params(params) == IF params = <<>> THEN <<>> ELSE <<SP>> \o params[1]

\* impl Display for Code
Code_fmt(code) ==
  CASE code.c = "Alert" -> <<65, 76, 69, 82, 84>>
    [] code.c = "BadCharset" ->
         IF code.charsets = <<>> THEN <<66, 65, 68, 67, 72, 65, 82, 83, 69, 84>>
         ELSE <<66, 65, 68, 67, 72, 65, 82, 83, 69, 84, 32, 40>> \o join(code.charsets, <<SP>>) \o <<41>>
    [] code.c = "Capability" -> <<67, 65, 80, 65, 66, 73, 76, 73, 84, 89, 32>> \o join(code.caps, <<SP>>)
    [] code.c = "Parse" -> <<80, 65, 82, 83, 69>>
    [] code.c = "PermanentFlags" ->
         <<80, 69, 82, 77, 65, 78, 69, 78, 84, 70, 76, 65, 71, 83, 32, 40>> \o join(code.flags, <<SP>>) \o <<41>>
    [] code.c = "ReadOnly" -> <<82, 69, 65, 68, 45, 79, 78, 76, 89>>
    [] code.c = "ReadWrite" -> <<82, 69, 65, 68, 45, 87, 82, 73, 84, 69>>
    [] code.c = "TryCreate" -> <<84, 82, 89, 67, 82, 69, 65, 84, 69>>
    [] code.c = "UidNext" -> <<85, 73, 68, 78, 69, 88, 84, 32>> \o u32_to_string(code.n)
    [] code.c = "UidValidity" -> <<85, 73, 68, 86, 65, 76, 73, 68, 73, 84, 89, 32>> \o u32_to_string(code.n)
    [] code.c = "Unseen" -> <<85, 78, 83, 69, 69, 78, 32>> \o u32_to_string(code.n)
    [] code.c = "Other" -> code.atom \o Code_Other_params(code.params)
    [] code.c = "Referral" -> <<82, 69, 70, 69, 82, 82, 65, 76, 32>> \o code.url

\* impl Codec for Code: self.to_string().into_bytes()
Code_serialize(code) == Code_fmt(code)

\* "[{}] " when there is a code
code_field(code) ==
  IF code = <<>> THEN <<>> ELSE <<91>> \o Code_fmt(code[1]) \o <<RBRACKET, SP>>

\* format_status, were it to leave out the space after the code.
format_status_code_unspaced(tg, status, code, comment) ==
  (IF tg = <<>> THEN <<42>> ELSE tg[1]) \o <<SP>> \o status \o <<SP>>
    \o (IF code = <<>> THEN <<>> ELSE <<91>> \o Code_fmt(code[1]) \o <<RBRACKET>>)
    \o comment \o <<CR, LF>>

\* format_status: "{} {} [{}] {}\r\n" or "{} {} {}\r\n", the tag * when absent
format_status(tg, status, code, comment) ==
  (IF tg = <<>> THEN <<42>> ELSE tg[1]) \o <<SP>> \o status \o <<SP>>
    \o code_field(code) \o comment \o <<CR, LF>>

Status_serialize(v) ==
  CASE v.status = "Ok" -> format_status(v.tag, <<79, 75>>, v.code, v.text)
    [] v.status = "No" -> format_status(v.tag, <<78, 79>>, v.code, v.text)
    [] v.status = "Bad" -> format_status(v.tag, <<66, 65, 68>>, v.code, v.text)
    [] v.status = "PreAuth" -> format_status(<<>>, <<80, 82, 69, 65, 85, 84, 72>>, v.code, v.text)
    [] v.status = "Bye" -> format_status(<<>>, <<66, 89, 69>>, v.code, v.text)

\* join(seqs, " ")
RECURSIVE join_numbers(_)
join_numbers(seqs) ==
  IF Len(seqs) = 1 THEN u32_to_string(seqs[1])
  ELSE u32_to_string(seqs[1]) \o <<SP>> \o join_numbers(Drop(seqs, 1))

\* Mailbox serialize: an atom as it is, any other name as a quoted string.
Mailbox_serialize(m) == IF m.t = "Atom" THEN m.s ELSE encode_quoted(m.s)

\* NString serialize: NIL, or the string as a quoted string.
NString_serialize(n) == IF n = <<>> THEN <<78, 73, 76>> ELSE encode_quoted(n[1].s)

\* format!("\"{}\"", delimiter), or nil
delimiter_field(d) ==
  IF d = <<>> THEN <<110, 105, 108>> ELSE <<DQUOTE, d[1], DQUOTE>>

\* impl Display for StatusItemResponse
StatusItemResponse_fmt(i) ==
  CASE i.item = "Messages" -> <<77, 69, 83, 83, 65, 71, 69, 83, 32>> \o u32_to_string(i.n)
    [] i.item = "Recent" -> <<82, 69, 67, 69, 78, 84, 32>> \o u32_to_string(i.n)
    [] i.item = "UidNext" -> <<85, 73, 68, 78, 69, 88, 84, 32>> \o u32_to_string(i.n)
    [] i.item = "UidValidity" -> <<85, 73, 68, 86, 65, 76, 73, 68, 73, 84, 89, 32>> \o u32_to_string(i.n)
    [] i.item = "Unseen" -> <<85, 78, 83, 69, 69, 78, 32>> \o u32_to_string(i.n)

\* The variants of DataItemResponse whose arm is unimplemented!()
DataItemResponse_unimplemented(i) ==
  i.t \in {"Body", "BodyExt", "BodyStructure", "Envelope", "InternalDate"}

\* impl Codec for DataItemResponse, the arms that return
DataItemResponse_serialize(i) ==
  CASE i.t = "Flags" -> <<40>> \o join(i.flags, <<SP>>) \o <<41>>
    [] i.t = "Rfc822" -> <<82, 70, 67, 56, 50, 50, 32>> \o NString_serialize(i.nstring)
    [] i.t = "Rfc822Header" -> <<82, 70, 67, 56, 50, 50, 46, 72, 69, 65, 68, 69, 82, 32>> \o NString_serialize(i.nstring)
    [] i.t = "Rfc822Size" -> <<82, 70, 67, 56, 50, 50, 46, 83, 73, 90, 69, 32>> \o u32_to_string(i.n)
    [] i.t = "Rfc822Text" -> <<82, 70, 67, 56, 50, 50, 46, 84, 69, 88, 84, 32>> \o NString_serialize(i.nstring)
    [] i.t = "Uid" -> <<85, 73, 68, 32>> \o u32_to_string(i.n)

\* Data::Search, were the space written before an empty list too.
Data_Search_spaced(seqs) ==
  IF seqs = <<>> THEN <<42, 32, 83, 69, 65, 82, 67, 72, 32>> \o <<CR, LF>>
  ELSE <<42, 32, 83, 69, 65, 82, 67, 72, 32>> \o join_numbers(seqs) \o <<CR, LF>>

\* Data::Search(seqs)
Data_Search(seqs) ==
  IF seqs = <<>> THEN <<42, 32, 83, 69, 65, 82, 67, 72>> \o <<CR, LF>>
  ELSE <<42, 32, 83, 69, 65, 82, 67, 72, 32>> \o join_numbers(seqs) \o <<CR, LF>>

\* impl Codec for Data, reaching an unimplemented!() arm
Data_unimplemented(v) ==
  v.type = "Fetch" /\ \E k \in 1..Len(v.items) : DataItemResponse_unimplemented(v.items[k])

Data_serialize(v) ==
  CASE v.type = "Capability" -> <<42, 32, 67, 65, 80, 65, 66, 73, 76, 73, 84, 89, 32>> \o join(v.caps, <<SP>>) \o <<CR, LF>>
    [] v.type = "List" ->
         <<42, 32, 76, 73, 83, 84, 32, 40>> \o join(v.items, <<SP>>) \o <<41, 32>> \o delimiter_field(v.delimiter)
           \o <<SP>> \o Mailbox_serialize(v.mailbox) \o <<CR, LF>>
    [] v.type = "Lsub" ->
         <<42, 32, 76, 83, 85, 66, 32, 40>> \o join(v.items, <<SP>>) \o <<41, SP, DQUOTE>> \o v.delimiter
           \o <<DQUOTE, SP>> \o Mailbox_serialize(v.name) \o <<CR, LF>>
    [] v.type = "Status" ->
         <<42, 32, 83, 84, 65, 84, 85, 83, 32>> \o Mailbox_serialize(v.name) \o <<32, 40>>
           \o join([k \in 1..Len(v.items) |-> StatusItemResponse_fmt(v.items[k])], <<SP>>)
           \o <<41, CR, LF>>
    [] v.type = "Search" -> Data_Search(v.seqs)
    [] v.type = "Flags" -> <<42, 32, 70, 76, 65, 71, 83, 32, 40>> \o join(v.flags, <<SP>>) \o <<41, CR, LF>>
    [] v.type = "Exists" -> <<42, 32>> \o u32_to_string(v.count) \o <<32, 69, 88, 73, 83, 84, 83>> \o <<CR, LF>>
    [] v.type = "Recent" -> <<42, 32>> \o u32_to_string(v.count) \o <<32, 82, 69, 67, 69, 78, 84>> \o <<CR, LF>>
    [] v.type = "Expunge" -> <<42, 32>> \o u32_to_string(v.msg) \o <<32, 69, 88, 80, 85, 78, 71, 69>> \o <<CR, LF>>
    [] v.type = "Fetch" ->
         <<42, 32>> \o u32_to_string(v.msg) \o <<32, 70, 69, 84, 67, 72, 32, 40>>
           \o join([k \in 1..Len(v.items) |-> DataItemResponse_serialize(v.items[k])], <<SP>>)
           \o <<41, CR, LF>>

\* impl Codec for Continuation: a Basic value has type "Continuation", a
\* Base64 value has type "Base64".
Continuation_serialize(v) ==
  CASE v.type = "Continuation" -> <<43, 32>> \o code_field(v.code) \o v.text \o <<CR, LF>>
    [] v.type = "Base64" -> <<43, 32>> \o v.data \o <<CR, LF>>

Response_serialize(v) ==
  CASE v.type = "Status" -> Status_serialize(v)
    [] v.type \in {"Continuation", "Base64"} -> Continuation_serialize(v)
    [] OTHER -> Data_serialize(v)

----------------------------------------------------------------------------
\* fuzz/fuzz_targets/response.rs: data is parsed; a parsed value is encoded
\* and the encoding is parsed again.

\* parsed1.encode()
fuzz_encoded(r) == IF r.kind = "Ok" THEN Response_serialize(r.val) ELSE <<>>

\* response(&input)
fuzz_reparsed(r) == IF r.kind = "Ok" THEN response(Response_serialize(r.val)) ELSE NotRun

\* The pieces the data is put together from:
\* "* ", "+ ", "a1 ", "OK ", "[ALERT] ", "x" CRLF, "LIST () ", "\"/\"",
\* "\"\\\"\"", "nil", " a" CRLF, "SEARCH 1 02" CRLF, "3 EXISTS" CRLF.
FuzzChunks ==
  {<<42, 32>>, <<43, 32>>, <<97, 49, 32>>, <<79, 75, 32>>, <<91, 65, 76, 69, 82, 84, 93, 32>>, <<120>> \o <<CR, LF>>, <<76, 73, 83, 84, 32, 40, 41, 32>>,
   <<DQUOTE, 47, DQUOTE>>, <<DQUOTE, BACKSLASH, DQUOTE, DQUOTE>>, <<110, 105, 108>>,
   <<32, 97>> \o <<CR, LF>>, <<83, 69, 65, 82, 67, 72, 32, 49, 32, 48, 50>> \o <<CR, LF>>, <<51, 32, 69, 88, 73, 83, 84, 83>> \o <<CR, LF>>}

InitFuzz ==
  /\ parser = "response"
  /\ buf = <<>>
  /\ fed = 0
  /\ out = response(buf)
  /\ encoded = fuzz_encoded(out)
  /\ reparsed = fuzz_reparsed(out)

fuzz_target ==
  /\ fed < MaxFeed
  /\ \E c \in FuzzChunks :
       /\ buf' = buf \o c
       /\ out' = response(buf \o c)
       /\ encoded' = fuzz_encoded(response(buf \o c))
       /\ reparsed' = fuzz_reparsed(response(buf \o c))
  /\ fed' = fed + 1
  /\ UNCHANGED parser

NextFuzz == fuzz_target

SpecFuzz == InitFuzz /\ [][NextFuzz]_vars

----------------------------------------------------------------------------
\* The caller of astring, fed the bytes that tell atoms from strings:
\* a ] SP " { CR.
AStringChunks == {<<97>>, <<RBRACKET>>, <<SP>>, <<DQUOTE>>, <<LBRACE>>, <<CR>>}

\* It starts with an empty buffer or with "a] ".
InitAString ==
  /\ parser = "astring"
  /\ buf \in {<<>>, <<97, RBRACKET, SP>>}
  /\ fed = 0
  /\ out = astring(buf)
  /\ encoded = <<>>
  /\ reparsed = NotRun

FeedAString ==
  /\ fed < MaxFeed
  /\ \E c \in AStringChunks :
       /\ buf' = buf \o c
       /\ out' = astring(buf \o c)
  /\ fed' = fed + 1
  /\ UNCHANGED <<parser, encoded, reparsed>>

NextAString == FeedAString

SpecAString == InitAString /\ [][NextAString]_vars

----------------------------------------------------------------------------
\* nom::multi::separated_nonempty_list(sep, f): the first element must parse;
\* then the list ends, keeping the input before the separator, at the first
\* separator or element that is an Error.  The element parser is named.
list_element(p, input) ==
  CASE p = "nz_number" -> nz_number(input)
    [] p = "astring" -> astring(input)

RECURSIVE separated_list_loop(_, _, _, _)
separated_list_elem(sep, p, acc, i, e) ==
  IF e.kind = "Error" THEN Ok(acc, i)
  ELSE IF e.kind # "Ok" THEN e
  ELSE separated_list_loop(sep, p, Append(acc, e.val), e.rem)

separated_list_sep(sep, p, acc, i, s) ==
  IF s.kind = "Error" THEN Ok(acc, i)
  ELSE IF s.kind # "Ok" THEN s
  ELSE separated_list_elem(sep, p, acc, i, list_element(p, s.rem))

separated_list_loop(sep, p, acc, i) ==
  separated_list_sep(sep, p, acc, i, tag_no_case(sep, i))

separated_list_first(sep, p, f) ==
  IF f.kind # "Ok" THEN f ELSE separated_list_loop(sep, p, <<f.val>>, f.rem)

separated_nonempty_list(sep, p, input) ==
  separated_list_first(sep, p, list_element(p, input))

\* parse::header::header_list:
\* header-list = "(" header-fld-name *(SP header-fld-name) ")",
\* header-fld-name = astring
header_list_names(b) ==
  IF b.kind # "Ok" THEN b ELSE separated_nonempty_list(<<SP>>, "astring", b.rem)

header_list(input) == followed(header_list_names(tag(<<40>>, input)), <<41>>)

----------------------------------------------------------------------------
\* parse/section.rs

header_list_after(s) == IF s.kind # "Ok" THEN s ELSE header_list(s.rem)

\* PartSpecifier::HeaderFields(header_list), PartSpecifier::HeaderFieldsNot(header_list)
PartSpecifier_fields(name, l) ==
  IF l.kind # "Ok" THEN l ELSE Ok([ps |-> name, fields |-> l.val], l.rem)

\* tuple((tag_no_case(keyword), sp, header_list))
msgtext_fields(name, k) ==
  PartSpecifier_fields(name, header_list_after(followed(k, <<SP>>)))

\* The alternatives of section_msgtext with HEADER tried first.
section_msgtext_header_first(input) ==
  alt(alt(alt(value([ps |-> "Header"], tag_no_case(<<72, 69, 65, 68, 69, 82>>, input)),
              msgtext_fields("HeaderFields", tag_no_case(<<72, 69, 65, 68, 69, 82, 46, 70, 73, 69, 76, 68, 83>>, input))),
          msgtext_fields("HeaderFieldsNot", tag_no_case(<<72, 69, 65, 68, 69, 82, 46, 70, 73, 69, 76, 68, 83, 46, 78, 79, 84>>, input))),
      value([ps |-> "Text"], tag_no_case(<<84, 69, 88, 84>>, input)))

\* section_msgtext, were MIME one of its alternatives.
section_msgtext_or_mime(input) ==
  alt(alt(alt(alt(msgtext_fields("HeaderFieldsNot", tag_no_case(<<72, 69, 65, 68, 69, 82, 46, 70, 73, 69, 76, 68, 83, 46, 78, 79, 84>>, input)),
                  msgtext_fields("HeaderFields", tag_no_case(<<72, 69, 65, 68, 69, 82, 46, 70, 73, 69, 76, 68, 83>>, input))),
              value([ps |-> "Header"], tag_no_case(<<72, 69, 65, 68, 69, 82>>, input))),
          value([ps |-> "Text"], tag_no_case(<<84, 69, 88, 84>>, input))),
      value([ps |-> "Mime"], tag_no_case(<<77, 73, 77, 69>>, input)))

\* section-msgtext = "HEADER" / "HEADER.FIELDS" [".NOT"] SP header-list / "TEXT"
section_msgtext(input) ==
  alt(alt(alt(msgtext_fields("HeaderFieldsNot", tag_no_case(<<72, 69, 65, 68, 69, 82, 46, 70, 73, 69, 76, 68, 83, 46, 78, 79, 84>>, input)),
              msgtext_fields("HeaderFields", tag_no_case(<<72, 69, 65, 68, 69, 82, 46, 70, 73, 69, 76, 68, 83>>, input))),
          value([ps |-> "Header"], tag_no_case(<<72, 69, 65, 68, 69, 82>>, input))),
      value([ps |-> "Text"], tag_no_case(<<84, 69, 88, 84>>, input)))

\* section-part = nz-number *("." nz-number)
section_part(input) == separated_nonempty_list(<<46>>, "nz_number", input)

\* section-text = section-msgtext / "MIME"
section_text(input) ==
  alt(section_msgtext(input), value([ps |-> "Mime"], tag_no_case(<<77, 73, 77, 69>>, input)))

\* The Section of a part specifier; part is None (<<>>) or Some(path)
\* (<<path>>).  Mime without a path and PartNumber are unreachable!().
Section_of(s, part) ==
  CASE s.ps = "Header" -> [sec |-> "Header", part |-> part]
    [] s.ps = "HeaderFields" -> [sec |-> "HeaderFields", part |-> part, fields |-> s.fields]
    [] s.ps = "HeaderFieldsNot" ->
         [sec |-> "HeaderFieldsNot", part |-> part, fields |-> s.fields]
    [] s.ps = "Text" -> [sec |-> "Text", part |-> part]
    [] s.ps = "Mime" /\ part # <<>> -> [sec |-> "Mime", part |-> part[1]]

\* map(section_msgtext, ...)
Section_top(r) ==
  IF r.kind # "Ok" THEN r
  ELSE IF r.val.ps \in {"PartNumber", "Mime"} THEN Panic
  ELSE Ok(Section_of(r.val, <<>>), r.rem)

\* map(tuple((section_part, opt(...))), ...)
Section_in_part(path, o) ==
  IF o.kind # "Ok" THEN o
  ELSE IF o.val = <<>> THEN Ok([sec |-> "Part", part |-> path], o.rem)
  ELSE IF o.val[1].ps = "PartNumber" THEN Panic
  ELSE Ok(Section_of(o.val[1], <<path>>), o.rem)

\* tuple((tag_no_case("."), section_text))
dot_section_text(d) == IF d.kind # "Ok" THEN d ELSE section_text(d.rem)

section_spec_part(p) ==
  IF p.kind # "Ok" THEN p
  ELSE Section_in_part(p.val, opt(dot_section_text(tag_no_case(<<46>>, p.rem)), p.rem))

\* section-spec = section-msgtext / (section-part ["." section-text])
section_spec(input) ==
  alt(Section_top(section_msgtext(input)), section_spec_part(section_part(input)))

section_opt_spec(b) == IF b.kind # "Ok" THEN b ELSE opt(section_spec(b.rem), b.rem)

\* section = "[" [section-spec] "]"
section(input) ==
  followed(section_opt_spec(tag_no_case(<<91>>, input)), <<RBRACKET>>)

----------------------------------------------------------------------------
\* The caller of the section parsers.

Sections ==
  {"section", "section_spec", "section_msgtext", "section_part", "section_text"}

RunSection(p, input) ==
  CASE p = "section" -> section(input)
    [] p = "section_spec" -> section_spec(input)
    [] p = "section_msgtext" -> section_msgtext(input)
    [] p = "section_part" -> section_part(input)
    [] p = "section_text" -> section_text(input)

\* The pieces delivered to each section parser.
SectionChunks(p) ==
  CASE p \in {"section", "section_spec"} ->
         {<<49>>, <<46>>, <<48>>, <<93>>, <<72, 69, 65, 68, 69, 82>>, <<46, 70, 73, 69, 76, 68, 83>>, <<46, 78, 79, 84>>, <<32, 40, 97, 41>>, <<77, 73, 77, 69>>, <<84, 69, 88, 84>>}
    [] p = "section_msgtext" ->
         {<<72, 69, 65, 68, 69, 82>>, <<104, 101, 97, 100, 101, 114>>, <<46, 70, 73, 69, 76, 68, 83>>, <<46, 78, 79, 84>>, <<32, 40, 97, 41>>, <<32, 40, 97, 32, 98, 41>>, <<84, 69, 88, 84>>, <<77, 73, 77, 69>>, <<93>>}
    [] p = "section_part" -> {<<49>>, <<50>>, <<48>>, <<46>>, <<93>>}
    [] p = "section_text" -> {<<72, 69, 65, 68, 69, 82>>, <<46, 70, 73, 69, 76, 68, 83>>, <<32, 40, 97, 41>>, <<77, 73, 77, 69>>, <<84, 69, 88, 84>>, <<93>>}

\* The buffers the caller starts with: the empty buffer, and [, 1. and
\* [1.HEADER.FIELDS for the nested forms.
SectionSeeds(p) ==
  CASE p = "section" -> {<<91>>, <<91, 49, 46, 72, 69, 65, 68, 69, 82, 46, 70, 73, 69, 76, 68, 83>>}
    [] p = "section_spec" -> {<<>>, <<49, 46>>}
    [] OTHER -> {<<>>}

InitSections ==
  /\ parser \in Sections
  /\ buf \in SectionSeeds(parser)
  /\ fed = 0
  /\ out = RunSection(parser, buf)
  /\ encoded = <<>>
  /\ reparsed = NotRun

FeedSection ==
  /\ fed < MaxFeed
  /\ \E c \in SectionChunks(parser) :
       /\ buf' = buf \o c
       /\ out' = RunSection(parser, buf \o c)
  /\ fed' = fed + 1
  /\ UNCHANGED <<parser, encoded, reparsed>>

NextSections == FeedSection

SpecSections == InitSections /\ [][NextSections]_vars

----------------------------------------------------------------------------
\* The primitive and the section parsers under one caller.
RunAny(p, input) == IF p \in Sections THEN RunSection(p, input) ELSE Run(p, input)

InitParsers == Init \/ InitSections

NextParsers ==
  \/ parser \in Primitives /\ Feed
  \/ parser \in Sections /\ FeedSection

SpecParsers == InitParsers /\ [][NextParsers]_vars

----------------------------------------------------------------------------
\* types/response.rs: the builders.  None is <<>>, Some(x) is <<x>>.

Status_greeting(code, txt) ==
  [type |-> "Status", status |-> "Ok", tag |-> <<>>, code |-> code, text |-> txt]

Status_ok(tg, code, txt) ==
  [type |-> "Status", status |-> "Ok", tag |-> tg, code |-> code, text |-> txt]

Status_no(tg, code, txt) ==
  [type |-> "Status", status |-> "No", tag |-> tg, code |-> code, text |-> txt]

Status_bad(tg, code, txt) ==
  [type |-> "Status", status |-> "Bad", tag |-> tg, code |-> code, text |-> txt]

\* PreAuth and Bye have no tag field; the record keeps it None.
Status_preauth(code, txt) ==
  [type |-> "Status", status |-> "PreAuth", tag |-> <<>>, code |-> code, text |-> txt]

Status_bye(code, txt) ==
  [type |-> "Status", status |-> "Bye", tag |-> <<>>, code |-> code, text |-> txt]

\* Continuation::basic, were it to keep the text as given.
Continuation_basic_as_given(code, txt) ==
  [type |-> "Continuation", code |-> code, text |-> txt]

\* Continuation::basic: an empty text becomes "."
Continuation_basic(code, txt) ==
  [type |-> "Continuation", code |-> code,
   text |-> IF txt = <<>> THEN <<46>> ELSE txt]

----------------------------------------------------------------------------
\* The caller of the builders and of the encoder.  parser names the
\* function called, buf holds its arguments, out what it returned and
\* encoded the bytes the value serializes to.

\* Continuation::base64
Continuation_base64(data) == [type |-> "Base64", data |-> data]

\* A call that returned a value; a call that reached unimplemented!() is
\* Panic.
Returned(v) == [kind |-> "Returned", val |-> v]

TaggedBuilders == {"Status::ok", "Status::no", "Status::bad"}

UntaggedBuilders == {"Status::greeting", "Status::preauth", "Status::bye"}

Status_build(b, tg, code, txt) ==
  CASE b = "Status::greeting" -> Status_greeting(code, txt)
    [] b = "Status::ok" -> Status_ok(tg, code, txt)
    [] b = "Status::no" -> Status_no(tg, code, txt)
    [] b = "Status::bad" -> Status_bad(tg, code, txt)
    [] b = "Status::preauth" -> Status_preauth(code, txt)
    [] b = "Status::bye" -> Status_bye(code, txt)

\* The arguments: no tag or A1; the texts "", x, hello, [ALERT] hello and
\* a CRLF b; the codes below.
ArgTags == {<<>>, <<<<65, 49>>>>}

ArgTexts ==
  {<<>>, <<120>>, <<104, 101, 108, 108, 111>>,
   <<91, 65, 76, 69, 82, 84, 93, 32, 104, 101, 108, 108, 111>>,
   <<97, CR, LF, 98>>}

\* Lists of 0, 1 and 2 items for each list-valued field.
Lists(a, b) == {<<>>, <<a>>, <<a, b>>}

Capabilities == Lists(<<73, 77, 65, 80, 52, 82, 69, 86, 49>>, <<73, 68, 76, 69>>)

Flags == Lists(<<92, 83, 101, 101, 110>>, <<92, 68, 101, 108, 101, 116, 101, 100>>)

NameAttributes == Lists(<<92, 78, 111, 115, 101, 108, 101, 99, 116>>, <<92, 77, 97, 114, 107, 101, 100>>)

Charsets == Lists(<<85, 84, 70, 45, 56>>, <<85, 83, 45, 65, 83, 67, 73, 73>>)

ArgCodes ==
  {[c |-> k] : k \in {"Alert", "Parse", "ReadOnly", "ReadWrite", "TryCreate"}}
  \cup {[c |-> "BadCharset", charsets |-> l] : l \in Charsets}
  \cup {[c |-> "Capability", caps |-> l] : l \in Capabilities}
  \cup {[c |-> "PermanentFlags", flags |-> l] : l \in Flags}
  \cup {[c |-> k, n |-> <<0, 7>>] : k \in {"UidNext", "UidValidity", "Unseen"}}
  \cup {[c |-> "Other", atom |-> <<88>>, params |-> p] : p \in {<<>>, <<<<121, 32, 122>>>>}}
  \cup {[c |-> "Referral", url |-> <<105, 109, 97, 112, 58, 47, 47, 104, 47>>]}

\* Option<Code> for the builders: None, ALERT, READ-WRITE, UIDNEXT 7
ArgOptCodes ==
  {<<>>, <<[c |-> "Alert"]>>, <<[c |-> "ReadWrite"]>>, <<[c |-> "UidNext", n |-> <<0, 7>>]>>}

InitEncoder ==
  /\ parser = "none"
  /\ buf = <<>>
  /\ fed = 0
  /\ out = NotRun
  /\ encoded = <<>>
  /\ reparsed = NotRun

\* A Status builder is called and the value it returns is serialized.
BuildStatus ==
  /\ \E b \in TaggedBuilders \cup UntaggedBuilders :
     \E tg \in IF b \in TaggedBuilders THEN ArgTags ELSE {<<>>} :
     \E code \in ArgOptCodes, txt \in ArgTexts :
       /\ parser' = b
       /\ buf' = [tag |-> tg, code |-> code, text |-> txt]
       /\ out' = Returned(Status_build(b, tg, code, txt))
       /\ encoded' = Status_serialize(Status_build(b, tg, code, txt))
  /\ UNCHANGED <<fed, reparsed>>

\* Continuation::basic is called and the value it returns is serialized.
BuildContinuation ==
  /\ \E code \in ArgOptCodes, txt \in ArgTexts :
       /\ parser' = "Continuation::basic"
       /\ buf' = [code |-> code, text |-> txt]
       /\ out' = Returned(Continuation_basic(code, txt))
       /\ encoded' = Continuation_serialize(Continuation_basic(code, txt))
  /\ UNCHANGED <<fed, reparsed>>

\* Continuation::base64 is called and the value it returns is serialized.
BuildBase64 ==
  /\ \E data \in ArgTexts :
       /\ parser' = "Continuation::base64"
       /\ buf' = [data |-> data]
       /\ out' = Returned(Continuation_base64(data))
       /\ encoded' = Continuation_serialize(Continuation_base64(data))
  /\ UNCHANGED <<fed, reparsed>>

\* The Data values given to the encoder.
ArgMailbox == [t |-> "Atom", s |-> <<98, 98, 98>>]

ArgSearches ==
  {<<>>, <<<<0, 1>>>>, <<<<0, 1>>, <<0, 2>>, <<0, 3>>, <<0, 42>>>>,
   <<<<1, 0>>, <<0, 10>>>>}

ArgStatusItems ==
  Lists([item |-> "Messages", n |-> <<0, 3>>], [item |-> "Unseen", n |-> <<0, 1>>])

ArgFetchItems ==
  {<<>>, <<[t |-> "Uid", n |-> <<0, 5>>]>>,
   <<[t |-> "Rfc822", nstring |-> <<>>], [t |-> "Rfc822Size", n |-> <<0, 9>>]>>,
   <<[t |-> "Rfc822Header", nstring |-> <<[t |-> "Quoted", s |-> <<97>>]>>]>>,
   <<[t |-> "Rfc822Text", nstring |-> <<>>]>>,
   <<[t |-> "Body"]>>, <<[t |-> "BodyExt"]>>, <<[t |-> "BodyStructure"]>>,
   <<[t |-> "Envelope"]>>,
   <<[t |-> "Uid", n |-> <<0, 5>>], [t |-> "InternalDate"]>>,
   <<[t |-> "Flags", flags |-> <<<<92, 83, 101, 101, 110>>>>],
     [t |-> "Rfc822Size", n |-> <<0, 44827>>]>>}
  \cup {<<[t |-> "Flags", flags |-> l]>> : l \in Flags}

ArgData ==
  {[type |-> "Capability", caps |-> l] : l \in Capabilities}
  \cup {[type |-> "List", items |-> l, delimiter |-> d, mailbox |-> ArgMailbox] :
          l \in NameAttributes, d \in {<<>>, <<47>>, <<DQUOTE>>, <<BACKSLASH>>}}
  \cup {[type |-> "Lsub", items |-> l, delimiter |-> <<47>>, name |-> ArgMailbox] :
          l \in NameAttributes}
  \cup {[type |-> "Status", name |-> ArgMailbox, items |-> l] : l \in ArgStatusItems}
  \cup {[type |-> "Search", seqs |-> l] : l \in ArgSearches}
  \cup {[type |-> "Flags", flags |-> l] : l \in Flags}
  \cup {[type |-> k, count |-> <<0, 42>>] : k \in {"Exists", "Recent"}}
  \cup {[type |-> "Expunge", msg |-> <<0, 123>>]}
  \cup {[type |-> "Fetch", msg |-> n, items |-> l] :
          n \in {<<0, 1>>, <<0, 23>>}, l \in ArgFetchItems}

\* Data::serialize is called on a value: it returns bytes, or it aborts in
\* an unimplemented!() arm.
EncodeData ==
  /\ \E v \in ArgData :
       /\ parser' = "Data::serialize"
       /\ buf' = v
       /\ out' = IF Data_unimplemented(v) THEN Panic ELSE Returned(v)
       /\ encoded' = IF Data_unimplemented(v) THEN <<>> ELSE Data_serialize(v)
  /\ UNCHANGED <<fed, reparsed>>

\* Code::serialize is called on a value.
EncodeCode ==
  /\ \E c \in ArgCodes :
       /\ parser' = "Code::serialize"
       /\ buf' = c
       /\ out' = Returned(c)
       /\ encoded' = Code_serialize(c)
  /\ UNCHANGED <<fed, reparsed>>

NextEncoder ==
  BuildStatus \/ BuildContinuation \/ BuildBase64 \/ EncodeData \/ EncodeCode

SpecEncoder == InitEncoder /\ [][NextEncoder]_vars

----------------------------------------------------------------------------
\* The caller of atom, fed a byte of each class the grammar names:
\* a, SP, ( ) {, % *, " \, ], NUL and DEL, and byte 128.
AtomChunks ==
  {<<97>>, <<SP>>, <<40>>, <<41>>, <<LBRACE>>, <<37>>, <<42>>, <<DQUOTE>>,
   <<BACKSLASH>>, <<RBRACKET>>, <<NUL>>, <<127>>, <<128>>}

InitAtom ==
  /\ parser = "atom"
  /\ buf = <<>>
  /\ fed = 0
  /\ out = atom(buf)
  /\ encoded = <<>>
  /\ reparsed = NotRun

FeedAtom ==
  /\ fed < MaxFeed
  /\ \E c \in AtomChunks :
       /\ buf' = buf \o c
       /\ out' = atom(buf \o c)
  /\ fed' = fed + 1
  /\ UNCHANGED <<parser, encoded, reparsed>>

NextAtom == FeedAtom

SpecAtom == InitAtom /\ [][NextAtom]_vars

----------------------------------------------------------------------------
\* The notions the properties speak of, stated on the bytes and not through
\* the parsers.

\* The leading run of digits of a buffer.
DigitRun(b) == Take(b, RunLen(Digits, b))

\* A non-empty digit run that a non-digit byte ends.
TerminatedRun(b) == RunLen(Digits, b) \in 1..(Len(b) - 1)

\* A digit run without its leading zeros (0 itself keeps one digit).
Canonical(ds) ==
  LET z == RunLen({48}, ds) IN
  IF z = Len(ds) THEN <<48>> ELSE Drop(ds, z)

\* 4294967295
U32MaxDigits == <<52, 50, 57, 52, 57, 54, 55, 50, 57, 53>>

\* a <= b for digit strings of one length.
LexLE(a, b) ==
  \/ a = b
  \/ \E k \in 1..Len(a) : a[k] < b[k] /\ \A j \in 1..(k - 1) : a[j] = b[j]

\* The digit run denotes a value of at most 4294967295.
FitsU32(ds) ==
  LET c == Canonical(ds) IN
  Len(c) < 10 \/ (Len(c) = 10 /\ LexLE(c, U32MaxDigits))

----------------------------------------------------------------------------
\* Literals, stated on the bytes.

\* The decimal digits of a natural number.
RECURSIVE DecimalOf(_)
DecimalOf(n) ==
  IF n < 10 THEN <<48 + n>> ELSE DecimalOf(n \div 10) \o <<48 + (n % 10)>>

\* b starts with the announcement {N} CRLF, which ends at byte j.
AnnouncesAt(b, n, j) ==
  /\ j \in 5..Len(b)
  /\ b[1] = LBRACE
  /\ \A k \in 2..(j - 3) : is_DIGIT(b[k])
  /\ Canonical(SubSeq(b, 2, j - 3)) = DecimalOf(n)
  /\ b[j - 2] = RBRACE
  /\ b[j - 1] = CR
  /\ b[j] = LF

\* b is exactly an announcement {N} CRLF of a u32 N.
AnnouncementOnly(b) ==
  /\ Len(b) >= 5
  /\ b[1] = LBRACE
  /\ \A k \in 2..(Len(b) - 3) : is_DIGIT(b[k])
  /\ FitsU32(SubSeq(b, 2, Len(b) - 3))
  /\ SubSeq(b, Len(b) - 2, Len(b)) = <<RBRACE, CR, LF>>

----------------------------------------------------------------------------
\* C1 (as stated): whenever the response parser succeeds on the data,
\* parsing the encoding of the parsed value succeeds again, leaves an empty
\* remainder and yields an equal value.
C1_RoundTrip ==
  (parser = "response" /\ out.kind = "Ok") => reparsed = Ok(out.val, <<>>)

\* The parsed value is a LIST whose hierarchy delimiter is a double quote
\* or a backslash.
QuotedSpecialDelimiter(v) ==
  /\ v.type = "List"
  /\ v.delimiter # <<>>
  /\ is_quoted_specials(v.delimiter[1])

\* The round trip holds for every other parsed value.
RoundTripUnlessQuotedSpecialDelimiter ==
  (parser = "response" /\ out.kind = "Ok" /\ ~QuotedSpecialDelimiter(out.val))
  => reparsed = Ok(out.val, <<>>)

----------------------------------------------------------------------------
\* A run of n bytes a.
Fill(n) == [k \in 1..n |-> 97]

\* What may still follow an unfinished literal: the rest of an announcement
\* and one byte more than it announces.
LiteralTails ==
  {<<>>, <<LF>>, <<CR, LF>>, <<RBRACE, CR, LF>>, <<50, RBRACE, CR, LF>>,
   <<LBRACE, 50, RBRACE, CR, LF>>}

LiteralCompletions(b) ==
  {t \o Fill(IF literal_announcement(b \o t).kind = "Ok"
             THEN literal_announcement(b \o t).val[2] + 1 ELSE 0) :
     t \in LiteralTails}

\* Bytes that complete every buffer that is a prefix of a legal token.
Completions(p, b) ==
  CASE p \in Numbers -> {<<63>>, <<53, 63>>}
    [] p = "atom" -> {<<SP>>, <<97, SP>>}
    [] p = "text" -> {<<CR>>, <<97, CR>>}
    [] p = "nil" -> {<<78, 73, 76>>, <<73, 76>>, <<76>>}
    [] p = "quoted" -> {<<DQUOTE>>, <<DQUOTE, DQUOTE>>}
    [] p = "literal" -> LiteralCompletions(b)

\* C2 (as stated): whenever number, nz_number, atom, quoted, literal, nil or
\* text returns Incomplete on a buffer, some extension of the buffer makes
\* the same parser succeed.
C2_IncompleteIsValidPrefix ==
  (parser \in Numbers \cup {"atom", "quoted", "literal", "nil", "text"}
   /\ out.kind = "Incomplete")
  => \E c \in Completions(parser, buf) : Run(parser, buf \o c).kind = "Ok"

\* The buffers on which these parsers return Incomplete although no
\* extension succeeds: a run of digits that already exceeds 4294967295, in
\* number, nz_number or the count of a literal, and a literal's payload
\* that already holds a NUL.
DeadPrefix(p, b) ==
  \/ p \in Numbers /\ ~FitsU32(b)
  \/ /\ p = "literal"
     /\ Len(b) >= 2
     /\ b[1] = LBRACE
     /\ \A k \in 2..Len(b) : is_DIGIT(b[k])
     /\ ~FitsU32(Drop(b, 1))
  \/ /\ p = "literal"
     /\ \E n \in 0..65535, j \in 1..Len(b) :
          AnnouncesAt(b, n, j) /\ \E k \in (j + 1)..Len(b) : b[k] = NUL

\* An Incomplete is a valid prefix except on those buffers.
IncompleteIsValidOrDeadPrefix ==
  (parser \in Numbers \cup {"atom", "quoted", "literal", "nil", "text"}
   /\ out.kind = "Incomplete")
  => \/ DeadPrefix(parser, buf)
     \/ \E c \in Completions(parser, buf) : Run(parser, buf \o c).kind = "Ok"

----------------------------------------------------------------------------
\* C3: once a primitive parser has returned the recoverable malformed error
\* on a buffer, it returns that error on every extension of the buffer.
C3_MalformedIsFinal ==
  [][(parser \in Primitives \ {"text"} /\ out.kind = "Error")
     => out'.kind = "Error"]_vars

\* nz_number was re-invoked on an extension of a buffer it had rejected.
C3_Witness ==
  /\ parser = "nz_number"
  /\ fed >= 2
  /\ Run(parser, Take(buf, Len(buf) - 1)).kind = "Error"
  /\ out.kind = "Error"

----------------------------------------------------------------------------
\* C4: on a buffer that is exactly an announcement {N} CRLF, literal returns
\* Failure (neither Incomplete nor Error), and string, nstring and astring
\* return that Failure unchanged.
C4_HandshakeRequired ==
  (parser \in Strings \cup {"literal"} /\ AnnouncementOnly(buf))
  => out = Failure

\* astring met {1} CRLF with nothing after it.
C4_Witness ==
  /\ parser = "astring"
  /\ buf = <<LBRACE, 49, RBRACE, CR, LF>>
  /\ out.kind = "Failure"

----------------------------------------------------------------------------
\* C5 (as stated): on {N} CRLF followed by at least N bytes whose first N
\* hold no NUL, literal succeeds with exactly those N bytes as payload and
\* all bytes after them as remainder.
C5_LiteralExactness ==
  parser = "literal"
  => \A n \in 0..Len(buf), j \in 1..Len(buf) :
       (/\ AnnouncesAt(buf, n, j)
        /\ Len(buf) - j >= n
        /\ \A k \in 1..n : buf[j + k] # NUL)
       => out = Ok(SubSeq(buf, j + 1, j + n), Drop(buf, j + n))

\* C5 (amended): the same, when at least one byte follows the announcement.
C5_LiteralExactnessAfterHandshake ==
  parser = "literal"
  => \A n \in 0..Len(buf), j \in 1..Len(buf) :
       (/\ AnnouncesAt(buf, n, j)
        /\ Len(buf) - j >= n
        /\ Len(buf) > j
        /\ \A k \in 1..n : buf[j + k] # NUL)
       => out = Ok(SubSeq(buf, j + 1, j + n), Drop(buf, j + n))

\* literal took 2 of the 3 bytes after {2} CRLF.
C5_Witness ==
  /\ parser = "literal"
  /\ buf = <<LBRACE, 50, RBRACE, CR, LF, 97, 97, 97>>
  /\ out = Ok(<<97, 97>>, <<97>>)

----------------------------------------------------------------------------
\* C6: when {N} CRLF is followed by at least N bytes and one of the first N
\* is NUL, literal returns the malformed error.
C6_LiteralRejectsNul ==
  parser = "literal"
  => \A n \in 0..Len(buf), j \in 1..Len(buf) :
       (/\ AnnouncesAt(buf, n, j)
        /\ Len(buf) - j >= n
        /\ \E k \in 1..n : buf[j + k] = NUL)
       => out = Error

\* literal met a NUL as the second byte of a payload of 2.
C6_Witness ==
  /\ parser = "literal"
  /\ buf = <<LBRACE, 50, RBRACE, CR, LF, 97, NUL>>
  /\ out.kind = "Error"

----------------------------------------------------------------------------
\* C7 (as stated): nz_number returns the malformed error, never Incomplete
\* or success, on every input whose digit run decodes to exactly 0,
\* including the single byte 0.
C7_NzNumberRejectsZero ==
  (/\ parser = "nz_number"
   /\ DigitRun(buf) # <<>>
   /\ Canonical(DigitRun(buf)) = <<48>>)
  => out.kind = "Error"

----------------------------------------------------------------------------
\* C8: on a non-empty digit run followed by a non-digit byte, number returns
\* the decimal value of the run (leading zeros allowed, remainder starting at
\* the non-digit) when the value is at most 4294967295, and the malformed
\* error when it is 4294967296 or more; never a value wrapped modulo 2^32.
C8_NumberRange ==
  (parser = "number" /\ TerminatedRun(buf))
  => IF FitsU32(DigitRun(buf))
     THEN /\ out.kind = "Ok"
          /\ u32_to_string(out.val) = Canonical(DigitRun(buf))
          /\ out.rem = Drop(buf, Len(DigitRun(buf)))
     ELSE out.kind = "Error"

\* number has parsed 4294967295? to the largest u32.
C8_Witness ==
  /\ parser = "number"
  /\ buf = U32MaxDigits \o <<63>>
  /\ out = Ok(<<65535, 65535>>, <<63>>)


----------------------------------------------------------------------------
\* Quoted strings, stated on the bytes.

\* s is made of unescaped characters and complete escape pairs only.
RECURSIVE WellEscaped(_)
WellEscaped(s) ==
  \/ s = <<>>
  \/ s[1] \in PlainQuotedChars /\ WellEscaped(Drop(s, 1))
  \/ /\ Len(s) >= 2
     /\ s[1] = BACKSLASH
     /\ s[2] \in QuotedSpecials
     /\ WellEscaped(Drop(s, 2))

\* Inside the quoted string that b opens, a backslash is followed by a byte
\* other than a double quote or a backslash.
BadEscape(b) ==
  /\ Len(b) >= 3
  /\ b[1] = DQUOTE
  /\ \E i \in 2..(Len(b) - 1) :
       /\ WellEscaped(SubSeq(b, 2, i - 1))
       /\ b[i] = BACKSLASH
       /\ b[i + 1] \notin {DQUOTE, BACKSLASH}

----------------------------------------------------------------------------
\* C9: for every legal quoted-string content s, encoding s as a quoted string
\* (escaping exactly the double quotes and backslashes) and parsing the
\* result with quoted yields s with an empty remainder.
C9_QuotedRoundTrip ==
  (\A k \in 1..Len(buf) : is_text_char(buf[k]))
  => reparsed = Ok(buf, <<>>)

\* The string \" was encoded as "\\\"" and parsed back.
C9_Witness ==
  /\ buf = <<BACKSLASH, DQUOTE>>
  /\ encoded = <<DQUOTE, BACKSLASH, BACKSLASH, BACKSLASH, DQUOTE, DQUOTE>>
  /\ reparsed = Ok(<<BACKSLASH, DQUOTE>>, <<>>)

----------------------------------------------------------------------------
----------------------------------------------------------------------------
\* C11 (as stated): when the first byte of the buffer can start an atom,
\* astring returns the Atom form of the longest run of atom characters (it
\* waits while no byte has ended the run), the remainder starting at the byte
\* that ends the run; when the first byte cannot start an atom, astring
\* returns what string returns.
C11_AStringPrecedence ==
  (parser = "astring" /\ buf # <<>>)
  => IF is_atom_char(buf[1])
     THEN IF RunLen(AtomChars, buf) < Len(buf)
          THEN out = Ok([t |-> "Atom", s |-> Take(buf, RunLen(AtomChars, buf))],
                        Drop(buf, RunLen(AtomChars, buf)))
          ELSE out.kind = "Incomplete"
     ELSE out = string(buf)

\* What astring does: the run it takes is of ASTRING-CHARs, which include the
\* closing bracket; a run that a byte has ended becomes an Atom when it holds
\* atom characters only and aborts the call otherwise; string is tried when
\* the first byte is no ASTRING-CHAR.
AStringTakesAStringRun ==
  (parser = "astring" /\ buf # <<>>)
  => IF is_astring_char(buf[1])
     THEN IF RunLen(AStringChars, buf) = Len(buf) THEN out.kind = "Incomplete"
          ELSE IF \A k \in 1..RunLen(AStringChars, buf) : is_atom_char(buf[k])
          THEN out = Ok([t |-> "Atom", s |-> Take(buf, RunLen(AStringChars, buf))],
                        Drop(buf, RunLen(AStringChars, buf)))
          ELSE out = Panic
     ELSE out = string(buf)

----------------------------------------------------------------------------
\* Bytes put after a token in place of its remainder: a 0 . " SP NUL.
Probe == {97, 48, 46, DQUOTE, SP, NUL}

\* Remainders that start as rem does.
SameStart(rem) ==
  IF rem = <<>> THEN {<<b>> : b \in Probe}
  ELSE {<<rem[1]>>} \cup {<<rem[1], b>> : b \in Probe}

\* The parsers whose token ends at its last byte or at the one byte after it.
OneByteLookahead == Primitives \cup {"section"}

\* C12: on success the remainder is a suffix of the input and the input is
\* the consumed bytes followed by the remainder; the value depends on the
\* consumed bytes only: any other remainder that leaves the same bytes
\* consumed gives the same value, and for the primitives and section any
\* remainder starting with the same byte does.
C12_ExactRemainder ==
  out.kind = "Ok"
  => /\ Len(out.rem) < Len(buf)
     /\ buf = Take(buf, Len(buf) - Len(out.rem)) \o out.rem
     /\ \A r \in SameStart(out.rem) \cup {<<b>> : b \in Probe} :
          LET again == RunAny(parser, Take(buf, Len(buf) - Len(out.rem)) \o r)
          IN (again.kind = "Ok" /\ again.rem = r) => again.val = out.val
     /\ parser \in OneByteLookahead
        => \A r \in SameStart(out.rem) :
             RunAny(parser, Take(buf, Len(buf) - Len(out.rem)) \o r) = Ok(out.val, r)

\* section_spec returned Part 1 on 1.0] and left .0] unconsumed.
C12_Witness ==
  /\ parser = "section_spec"
  /\ buf = <<49, 46, 48, 93>>
  /\ out = Ok([sec |-> "Part", part |-> <<<<0, 1>>>>], <<46, 48, 93>>)

----------------------------------------------------------------------------
\* The buffer starts, in any letter case, with the keyword k, a space and a
\* header list.
KeywordAndHeaderList(k, b) ==
  /\ Len(b) > Len(k)
  /\ LowerSeq(Take(b, Len(k))) = LowerSeq(k)
  /\ b[Len(k) + 1] = SP
  /\ header_list(Drop(b, Len(k) + 1)).kind = "Ok"

\* C13: on a buffer starting with HEADER.FIELDS.NOT, a space and a header
\* list, section_msgtext returns HeaderFieldsNot with that list and the bytes
\* after the list as remainder, never HeaderFields or Header; on a buffer
\* starting with HEADER.FIELDS, a space and a header list it returns
\* HeaderFields with that list, never Header.
C13_SectionLongestMatch ==
  parser = "section_msgtext"
  => /\ KeywordAndHeaderList(<<72, 69, 65, 68, 69, 82, 46, 70, 73, 69, 76, 68, 83, 46, 78, 79, 84>>, buf)
        => out = Ok([ps |-> "HeaderFieldsNot",
                     fields |-> header_list(Drop(buf, 18)).val],
                    header_list(Drop(buf, 18)).rem)
     /\ KeywordAndHeaderList(<<72, 69, 65, 68, 69, 82, 46, 70, 73, 69, 76, 68, 83>>, buf)
        => out = Ok([ps |-> "HeaderFields",
                     fields |-> header_list(Drop(buf, 14)).val],
                    header_list(Drop(buf, 14)).rem)

\* section_msgtext returned HeaderFieldsNot with the list (a b) on
\* header.FIELDS.NOT (a b).
C13_Witness ==
  /\ parser = "section_msgtext"
  /\ buf = <<104, 101, 97, 100, 101, 114, 46, 70, 73, 69, 76, 68, 83, 46, 78, 79, 84, 32, 40, 97, 32, 98, 41>>
  /\ out = Ok([ps |-> "HeaderFieldsNot",
               fields |-> <<[t |-> "Atom", s |-> <<97>>], [t |-> "Atom", s |-> <<98>>]>>],
              <<>>)

----------------------------------------------------------------------------
\* A part path: a non-empty sequence of numbers that are all at least 1.
PartPath(path) ==
  /\ path # <<>>
  /\ \A k \in 1..Len(path) : path[k] # <<0, 0>>

\* A Section as the data model has it.
WellFormedSection(s) ==
  CASE s.sec \in {"Mime", "Part"} -> PartPath(s.part)
    [] s.sec \in {"Header", "HeaderFields", "HeaderFieldsNot", "Text"} ->
         s.part = <<>> \/ (Len(s.part) = 1 /\ PartPath(s.part[1]))
    [] OTHER -> FALSE

\* Between bytes lo and hi, b holds digits and dots only, and a component
\* that is all zeros.
ZeroComponent(b, lo, hi) ==
  /\ \A k \in lo..hi : b[k] \in Digits \cup {46}
  /\ \E x \in lo..hi : \E y \in x..hi :
       /\ \A k \in x..y : b[k] = 48
       /\ x = lo \/ b[x - 1] = 46
       /\ y = hi \/ b[y + 1] = 46

\* C14: every Section returned by section or section_spec is well formed: a
\* part path is non-empty with all components at least 1, and Mime and Part
\* carry one; section rejects [MIME and a bracketed path with a 0 component;
\* a section-spec that starts with a letter yields a form without part path;
\* [] yields no section.
C14_SectionWellFormed ==
  /\ (parser = "section_spec" /\ out.kind = "Ok")
     => /\ WellFormedSection(out.val)
        /\ buf[1] \notin Digits => out.val.part = <<>>
  /\ (parser = "section" /\ out.kind = "Ok")
     => /\ out.val = <<>> \/ (Len(out.val) = 1 /\ WellFormedSection(out.val[1]))
        /\ out.val = <<>> <=> buf[2] = RBRACKET
        /\ (out.val # <<>> /\ buf[2] \notin Digits) => out.val[1].part = <<>>
  /\ (parser = "section" /\ Len(buf) >= 5 /\ LowerSeq(Take(buf, 5)) = <<91, 109, 105, 109, 101>>)
     => out.kind = "Error"
  /\ (parser = "section"
      /\ \E j \in 3..Len(buf) : buf[j] = RBRACKET /\ ZeroComponent(buf, 2, j - 1))
     => out.kind = "Error"
  /\ (parser = "section" /\ Len(buf) >= 2 /\ Take(buf, 2) = <<91, 93>>)
     => out = Ok(<<>>, Drop(buf, 2))

\* section returned Mime of part 1 on [1.MIME].
C14_Witness ==
  /\ parser = "section"
  /\ buf = <<91, 49, 46, 77, 73, 77, 69, 93>>
  /\ out = Ok(<<[sec |-> "Mime", part |-> <<<<0, 1>>>>]>>, <<>>)

----------------------------------------------------------------------------
\* The keyword of the variant a Status builder makes.
Keyword(b) ==
  CASE b \in {"Status::greeting", "Status::ok"} -> <<79, 75>>
    [] b = "Status::no" -> <<78, 79>>
    [] b = "Status::bad" -> <<66, 65, 68>>
    [] b = "Status::preauth" -> <<80, 82, 69, 65, 85, 84, 72>>
    [] b = "Status::bye" -> <<66, 89, 69>>

\* "[" code "]" SP when a code is given, nothing otherwise.
Bracketed(code) ==
  IF code = <<>> THEN <<>> ELSE <<91>> \o Code_fmt(code[1]) \o <<RBRACKET>> \o <<SP>>

\* C15: a Status encodes as <first> SP <KEYWORD> SP ["[" code "]" SP] text
\* CRLF: the keyword is that of the variant, the bracketed code appears
\* exactly when a code is present, and <first> is the tag of an Ok, No or Bad
\* that has one and * otherwise, so always * for PreAuth and Bye.
C15_StatusLineFormat ==
  parser \in TaggedBuilders \cup UntaggedBuilders
  => /\ encoded = (IF parser \in TaggedBuilders /\ buf.tag # <<>>
                   THEN buf.tag[1] ELSE <<42>>)
                  \o <<SP>> \o Keyword(parser) \o <<SP>> \o Bracketed(buf.code)
                  \o buf.text \o <<CR, LF>>
     /\ parser \in UntaggedBuilders => encoded[1] = 42 /\ encoded[2] = SP

\* Status::no(Some("A1"), Some(Code::Alert), "hello") encoded as
\* A1 NO [ALERT] hello CRLF.
C15_Witness ==
  /\ parser = "Status::no"
  /\ buf = [tag |-> <<<<65, 49>>>>, code |-> <<[c |-> "Alert"]>>, text |-> <<104, 101, 108, 108, 111>>]
  /\ encoded = <<65, 49, 32, 78, 79, 32, 91, 65, 76, 69, 82, 84, 93, 32, 104, 101, 108, 108, 111>> \o <<CR, LF>>

----------------------------------------------------------------------------
\* C16 (as stated): a Status builder given an empty text fails with
\* InvalidValue; the Status a builder returns has a text that is not empty
\* and encodes to a line with something between its last space and CRLF.
C16_NonEmptyTextAtConstruction ==
  parser \in TaggedBuilders \cup UntaggedBuilders
  => /\ buf.text = <<>> => out.kind = "InvalidValue"
     /\ out.kind = "Returned"
        => /\ out.val.text # <<>>
           /\ encoded[Len(encoded) - 2] # SP

\* What the builders do: they return a Status with the text as given.
BuildersKeepText ==
  parser \in TaggedBuilders \cup UntaggedBuilders
  => out.kind = "Returned" /\ out.val.text = buf.text

----------------------------------------------------------------------------
\* C17: Continuation::basic(c, t) returns a Basic whose text is t, or "."
\* when t is empty, and whose code is c; it encodes as + SP ["[" c "]" SP]
\* text CRLF, so basic(None, "") encodes as + SP . CRLF.
C17_ContinuationNormalization ==
  parser = "Continuation::basic"
  => /\ out.kind = "Returned"
     /\ out.val.code = buf.code
     /\ out.val.text = (IF buf.text = <<>> THEN <<46>> ELSE buf.text)
     /\ out.val.text # <<>>
     /\ encoded = <<43, SP>> \o Bracketed(buf.code) \o out.val.text \o <<CR, LF>>
     /\ (buf.code = <<>> /\ buf.text = <<>>) => encoded = <<43, SP, 46, CR, LF>>

\* basic(Some(Code::ReadWrite), "") encoded as + [READ-WRITE] . CRLF.
C17_Witness ==
  /\ parser = "Continuation::basic"
  /\ buf = [code |-> <<[c |-> "ReadWrite"]>>, text |-> <<>>]
  /\ encoded = <<43, 32, 91, 82, 69, 65, 68, 45, 87, 82, 73, 84, 69, 93, 32, 46>> \o <<CR, LF>>

----------------------------------------------------------------------------
\* The decimal digits of a u32 below 2^31.
DecimalU32(n) == DecimalOf(n[1] * Limb + n[2])

\* Each number in decimal, a space before each.
RECURSIVE Spaced(_)
Spaced(seqs) ==
  IF seqs = <<>> THEN <<>>
  ELSE <<SP>> \o DecimalU32(seqs[1]) \o Spaced(Drop(seqs, 1))

\* C18: Data::Search with the empty list encodes as * SEARCH CRLF, with no
\* space before CRLF; with a non-empty list it encodes as * SEARCH, then for
\* each number in order one space and its decimal digits, then CRLF.
C18_SearchFormatting ==
  (parser = "Data::serialize" /\ buf.type = "Search")
  => /\ out.kind = "Returned"
     /\ encoded = <<42, 32, 83, 69, 65, 82, 67, 72>> \o Spaced(buf.seqs) \o <<CR, LF>>
     /\ buf.seqs = <<>> => encoded = <<42, SP, 83, 69, 65, 82, 67, 72, CR, LF>>

\* Data::Search(vec![1, 2, 3, 42]) encoded as * SEARCH 1 2 3 42 CRLF.
C18_Witness ==
  /\ parser = "Data::serialize"
  /\ buf = [type |-> "Search", seqs |-> <<<<0, 1>>, <<0, 2>>, <<0, 3>>, <<0, 42>>>>]
  /\ encoded = <<42, 32, 83, 69, 65, 82, 67, 72, 32, 49, 32, 50, 32, 51, 32, 52, 50>> \o <<CR, LF>>

----------------------------------------------------------------------------
\* The line as it reaches the wire: a code is followed by its closing
\* bracket.
WireLine == IF parser = "Code::serialize" THEN encoded \o <<RBRACKET>> ELSE encoded

\* C19 (as stated): in what the Data and Code encoders emit, for every list
\* length including zero, the items are separated by exactly one space and
\* no separator follows the last one: there is no space immediately before
\* a closing parenthesis, a closing bracket or CRLF, and no space after a
\* space.
C19_ListJoining ==
  (parser \in {"Data::serialize", "Code::serialize"} /\ out.kind = "Returned")
  => \A k \in 1..(Len(WireLine) - 1) :
       WireLine[k] = SP => WireLine[k + 1] \notin {41, RBRACKET, CR, SP}

\* The value encoded is CAPABILITY data or a CAPABILITY code with no
\* capability.
EmptyCapability ==
  \/ parser = "Data::serialize" /\ buf.type = "Capability" /\ buf.caps = <<>>
  \/ parser = "Code::serialize" /\ buf.c = "Capability" /\ buf.caps = <<>>

\* The joining holds for every other value.
ListJoiningUnlessEmptyCapability ==
  (parser \in {"Data::serialize", "Code::serialize"} /\ out.kind = "Returned"
   /\ ~EmptyCapability)
  => \A k \in 1..(Len(WireLine) - 1) :
       WireLine[k] = SP => WireLine[k + 1] \notin {41, RBRACKET, CR, SP}

----------------------------------------------------------------------------
\* C20 (as stated): encoding a Fetch with a Body, BodyExt, BodyStructure,
\* Envelope or InternalDate item returns an Unsupported error value and no
\* bytes, and does not abort; encoding any other value returns bytes.
C20_UnsupportedSignal ==
  parser = "Data::serialize"
  => IF buf.type = "Fetch"
        /\ \E k \in 1..Len(buf.items) :
             buf.items[k].t \in {"Body", "BodyExt", "BodyStructure", "Envelope",
                                 "InternalDate"}
     THEN out.kind = "Unsupported" /\ encoded = <<>>
     ELSE out.kind = "Returned" /\ encoded # <<>>

\* What the encoder does: it aborts on those items and returns bytes for
\* every other value.
UnimplementedAborts ==
  parser = "Data::serialize"
  => IF Data_unimplemented(buf) THEN out = Panic
     ELSE out.kind = "Returned" /\ encoded # <<>>

----------------------------------------------------------------------------
\* The data-item name of a supported fetch item.
ItemName(i) ==
  CASE i.t = "Flags" -> <<70, 76, 65, 71, 83>>
    [] i.t = "Rfc822" -> <<82, 70, 67, 56, 50, 50>>
    [] i.t = "Rfc822Header" -> <<82, 70, 67, 56, 50, 50, 46, 72, 69, 65, 68, 69, 82>>
    [] i.t = "Rfc822Text" -> <<82, 70, 67, 56, 50, 50, 46, 84, 69, 88, 84>>
    [] i.t = "Rfc822Size" -> <<82, 70, 67, 56, 50, 50, 46, 83, 73, 90, 69>>
    [] i.t = "Uid" -> <<85, 73, 68>>

\* Each flag, a space before each.
RECURSIVE SpacedItems(_)
SpacedItems(l) ==
  IF l = <<>> THEN <<>> ELSE <<SP>> \o l[1] \o SpacedItems(Drop(l, 1))

\* The value of a supported fetch item: the parenthesized flag list, the
\* nstring or the number.
ItemValue(i) ==
  CASE i.t = "Flags" -> <<40>> \o Drop(SpacedItems(i.flags), 1) \o <<41>>
    [] i.t \in {"Rfc822", "Rfc822Header", "Rfc822Text"} ->
         IF i.nstring = <<>> THEN <<78, 73, 76>> ELSE encode_quoted(i.nstring[1].s)
    [] i.t \in {"Rfc822Size", "Uid"} -> DecimalU32(i.n)

\* Each item as name SP value, a space before each.
RECURSIVE SpacedFetchItems(_)
SpacedFetchItems(items) ==
  IF items = <<>> THEN <<>>
  ELSE <<SP>> \o ItemName(items[1]) \o <<SP>> \o ItemValue(items[1])
         \o SpacedFetchItems(Drop(items, 1))

\* * SP msg SP FETCH SP ( items ) CRLF
FetchLine(v) ==
  <<42, 32>> \o DecimalU32(v.msg) \o <<32, 70, 69, 84, 67, 72, 32, 40>> \o Drop(SpacedFetchItems(v.items), 1)
    \o <<41, CR, LF>>

\* C21 (as stated): a Fetch of supported items encodes as * SP msg SP FETCH
\* SP ( items ) CRLF, each item as its data-item name, one space and its
\* value; a Flags item followed by an Rfc822Size item gives
\* * 23 FETCH (FLAGS (\Seen) RFC822.SIZE 44827).
C21_FetchLineFormat ==
  (parser = "Data::serialize" /\ buf.type = "Fetch" /\ out.kind = "Returned")
  => encoded = FetchLine(buf)

\* The line has that form whenever no item is a Flags item.
FetchLineFormatWithoutFlags ==
  (parser = "Data::serialize" /\ buf.type = "Fetch" /\ out.kind = "Returned"
   /\ \A k \in 1..Len(buf.items) : buf.items[k].t # "Flags")
  => encoded = FetchLine(buf)

\* A Flags item is written as its parenthesized list alone.
FlagsItemUnnamed ==
  (/\ parser = "Data::serialize"
   /\ buf = [type |-> "Fetch", msg |-> <<0, 23>>,
             items |-> <<[t |-> "Flags", flags |-> <<<<92, 83, 101, 101, 110>>>>],
                         [t |-> "Rfc822Size", n |-> <<0, 44827>>]>>])
  => encoded = <<42, 32, 50, 51, 32, 70, 69, 84, 67, 72, 32, 40, 40, 92, 83, 101, 101, 110, 41, 32, 82, 70, 67, 56, 50, 50, 46, 83, 73, 90, 69, 32, 52, 52, 56, 50, 55, 41>> \o <<CR, LF>>

----------------------------------------------------------------------------
\* The bytes an atom never holds: controls, SP, ( ) {, the list wildcards,
\* the double quote, the backslash and ].
NeverInAtom == (0..31) \cup {127, SP, 40, 41, LBRACE, 37, 42, DQUOTE, BACKSLASH, RBRACKET}

\* The first position of b holding a byte that is no atom character, 0 when
\* there is none.
FirstNonAtom(b) ==
  IF \E k \in 1..Len(b) : ~is_atom_char(b[k])
  THEN CHOOSE k \in 1..Len(b) :
         ~is_atom_char(b[k]) /\ \A j \in 1..(k - 1) : is_atom_char(b[j])
  ELSE 0

\* C22: atom succeeds exactly when the buffer starts with at least one atom
\* character and holds a later byte that is none; the value is the run
\* before the first such byte and holds no control character, space,
\* parenthesis, brace, list wildcard, double quote, backslash or ]; the
\* remainder starts at that byte; a leading byte that is no atom character
\* gives Error.
C22_AtomParsing ==
  parser = "atom"
  => /\ out.kind = "Ok" <=> FirstNonAtom(buf) >= 2
     /\ out.kind = "Ok"
        => /\ out.val = SubSeq(buf, 1, FirstNonAtom(buf) - 1)
           /\ out.rem = SubSeq(buf, FirstNonAtom(buf), Len(buf))
           /\ \A k \in 1..Len(out.val) : out.val[k] \notin NeverInAtom
     /\ FirstNonAtom(buf) = 1 => out = Error

\* atom on aa]a: the value aa, the remainder ]a.
C22_Witness ==
  /\ parser = "atom"
  /\ buf = <<97, 97, RBRACKET, 97>>
  /\ out = Ok(<<97, 97>>, <<RBRACKET, 97>>)

----------------------------------------------------------------------------
\* b is a non-empty proper prefix of a well-formed quoted string: the
\* opening double quote, then unescaped characters and escape pairs, then
\* possibly a backslash alone.
ProperQuotedPrefix(b) ==
  /\ b # <<>>
  /\ b[1] = DQUOTE
  /\ \/ WellEscaped(Drop(b, 1))
     \/ /\ Len(b) >= 2
        /\ b[Len(b)] = BACKSLASH
        /\ WellEscaped(SubSeq(b, 2, Len(b) - 1))

\* C23: quoted returns Incomplete on every non-empty proper prefix of a
\* well-formed quoted string, a prefix ending right after a backslash
\* included, and Error on every non-empty buffer whose first byte is not a
\* double quote.
C23_QuotedPrefixes ==
  parser = "quoted"
  => /\ ProperQuotedPrefix(buf) => out = Incomplete
     /\ (buf # <<>> /\ buf[1] # DQUOTE) => out = Error

\* quoted on "a\ : the prefix ends right after a backslash.
C23_Witness ==
  /\ parser = "quoted"
  /\ buf = <<DQUOTE, 97, BACKSLASH>>
  /\ out = Incomplete

----------------------------------------------------------------------------
\* b is shorter than the announcement of a literal of at least one byte and
\* can grow into one: nothing, or { and digits, then } and CR when the
\* digits denote a count from 1 to 4294967295.
AnnouncementPrefix(b) ==
  \/ b = <<>>
  \/ /\ b[1] = LBRACE
     /\ FitsU32(DigitRun(Drop(b, 1)))
     /\ \/ Drop(b, 1 + Len(DigitRun(Drop(b, 1)))) = <<>>
        \/ /\ Drop(b, 1 + Len(DigitRun(Drop(b, 1)))) \in {<<RBRACE>>, <<RBRACE, CR>>}
           /\ DigitRun(Drop(b, 1)) # <<>>
           /\ Canonical(DigitRun(Drop(b, 1))) # <<48>>

\* b starts with the announcement of a count from 1 to 4294967295, which
\* ends at byte j.
AnnouncesPayloadAt(b, j) ==
  /\ j \in 5..Len(b)
  /\ b[1] = LBRACE
  /\ \A k \in 2..(j - 3) : is_DIGIT(b[k])
  /\ FitsU32(SubSeq(b, 2, j - 3))
  /\ Canonical(SubSeq(b, 2, j - 3)) # <<48>>
  /\ SubSeq(b, j - 2, j) = <<RBRACE, CR, LF>>

\* C24: as the bytes of a literal {N} CRLF payload (N >= 1, no NUL in the
\* payload) arrive and literal is invoked on each longer buffer, it returns
\* Incomplete on every buffer shorter than the announcement, Failure on the
\* buffer that ends with the announcement's CRLF, Incomplete while 1 to N-1
\* payload bytes are present, and the payload with the bytes after it from
\* N payload bytes on; Failure is never returned once a byte follows the
\* announcement.
C24_LiteralOutcomeOrder ==
  parser = "literal"
  => /\ AnnouncementPrefix(buf) => out = Incomplete
     /\ \A j \in 1..Len(buf) :
          AnnouncesPayloadAt(buf, j)
          => /\ Len(buf) = j => out = Failure
             /\ Len(buf) > j => out # Failure
             /\ (/\ Len(buf) > j
                 /\ \A m \in 0..(Len(buf) - j) :
                      Canonical(SubSeq(buf, 2, j - 3)) # DecimalOf(m)
                 /\ \A k \in (j + 1)..Len(buf) : buf[k] # NUL)
                => out = Incomplete
             /\ \A n \in 1..(Len(buf) - j) :
                  (/\ Canonical(SubSeq(buf, 2, j - 3)) = DecimalOf(n)
                   /\ \A k \in (j + 1)..(j + n) : buf[k] # NUL)
                  => out = Ok(SubSeq(buf, j + 1, j + n), Drop(buf, j + n))

\* One payload byte of two has arrived after {2} CRLF, on which literal had
\* returned Failure.
C24_Witness ==
  /\ parser = "literal"
  /\ buf = <<LBRACE, 50, RBRACE, CR, LF, 97>>
  /\ literal(Take(buf, 5)) = Failure
  /\ out = Incomplete

----------------------------------------------------------------------------
\* C25: once number, nz_number, atom, quoted, literal, nil, string, astring,
\* nstring or section has succeeded on a buffer with a value and a
\* remainder, it succeeds on every extension of the buffer with the same
\* value and the remainder followed by the bytes added.
C25_SuccessStableUnderExtension ==
  [][(/\ parser \in {"number", "nz_number", "atom", "quoted", "literal", "nil",
                     "string", "astring", "nstring", "section"}
      /\ out.kind = "Ok")
     => out' = Ok(out.val, out.rem \o Drop(buf', Len(buf)))]_vars

\* section succeeded on [1] and again, with the same value, on [1] followed
\* by more bytes.
C25_Witness ==
  /\ parser = "section"
  /\ Len(buf) > 3
  /\ Take(buf, 3) = <<91, 49, RBRACKET>>
  /\ section(Take(buf, 3)).kind = "Ok"
  /\ out = Ok(section(Take(buf, 3)).val, Drop(buf, 3))

----------------------------------------------------------------------------
\* The Status values and the Continuation values the builders return on the
\* arguments of the model.
StatusValues ==
  UNION {{Status_build(b, tg, code, txt) :
            tg \in IF b \in TaggedBuilders THEN ArgTags ELSE {<<>>},
            code \in ArgOptCodes, txt \in ArgTexts} :
         b \in TaggedBuilders \cup UntaggedBuilders}

ContinuationValues ==
  {Continuation_basic(code, txt) : code \in ArgOptCodes, txt \in ArgTexts}
  \cup {Continuation_base64(data) : data \in ArgTexts}

\* C26 (as stated): no Status value other than the one encoded encodes to the
\* same bytes, and no Continuation value other than the one encoded encodes
\* to the same bytes.
C26_EncoderInjectivity ==
  /\ parser \in TaggedBuilders \cup UntaggedBuilders
     => \A w \in StatusValues : w # out.val => Status_serialize(w) # encoded
  /\ parser \in {"Continuation::basic", "Continuation::base64"}
     => \A w \in ContinuationValues :
          w # out.val => Continuation_serialize(w) # encoded

\* Two values with the same bytes differ in their code, or are a Basic and
\* a Base64 continuation.
CollisionsThroughCodeOrBase64 ==
  /\ parser \in TaggedBuilders \cup UntaggedBuilders
     => \A w \in StatusValues :
          (w # out.val /\ Status_serialize(w) = encoded)
          => /\ w.code # out.val.code
             /\ w.status = out.val.status
             /\ w.tag = out.val.tag
  /\ parser \in {"Continuation::basic", "Continuation::base64"}
     => \A w \in ContinuationValues :
          (w # out.val /\ Continuation_serialize(w) = encoded)
          => \/ w.type # out.val.type
             \/ w.code # out.val.code

\* The two collisions: OK [ALERT] hello with and without a code, and + x
\* as Basic and as Base64.
SameBytes ==
  /\ Status_serialize(Status_ok(<<>>, <<[c |-> "Alert"]>>, <<104, 101, 108, 108, 111>>))
       = Status_serialize(Status_ok(<<>>, <<>>, <<91, 65, 76, 69, 82, 84, 93, 32, 104, 101, 108, 108, 111>>))
  /\ Continuation_serialize(Continuation_basic(<<>>, <<120>>))
       = Continuation_serialize(Continuation_base64(<<120>>))

----------------------------------------------------------------------------
\* The builders of Status and Continuation values.
Builders ==
  TaggedBuilders \cup UntaggedBuilders \cup {"Continuation::basic", "Continuation::base64"}

\* C27 (as stated): the bytes a value from a builder encodes to hold exactly
\* one CRLF, and it is their last two bytes.
C27_SingleLineTerminator ==
  parser \in Builders
  => /\ Len(encoded) >= 2
     /\ \A k \in 1..(Len(encoded) - 1) :
          (encoded[k] = CR /\ encoded[k + 1] = LF) <=> k = Len(encoded) - 1

\* The text a builder was given (the data, for base64).
GivenText == IF parser = "Continuation::base64" THEN buf.data ELSE buf.text

\* It holds whenever the text given to the builder holds no CR and no LF.
SingleLineTerminatorUnlessInText ==
  (parser \in Builders /\ \A k \in 1..Len(GivenText) : GivenText[k] \notin {CR, LF})
  => /\ Len(encoded) >= 2
     /\ \A k \in 1..(Len(encoded) - 1) :
          (encoded[k] = CR /\ encoded[k + 1] = LF) <=> k = Len(encoded) - 1

----------------------------------------------------------------------------
\* The delimiter field of an encoded LIST line: the bytes between the space
\* after the closing parenthesis of the attributes and the space before the
\* mailbox (an atom, written as it is).
ListDelimiterField ==
  SubSeq(encoded,
         (CHOOSE k \in 1..Len(encoded) :
            encoded[k] = 41 /\ \A j \in 1..(k - 1) : encoded[j] # 41) + 2,
         Len(encoded) - 2 - Len(buf.mailbox.s) - 1)

\* C28 (as stated): for a Data::List with the delimiter character d, quoted
\* accepts the delimiter field of the encoding and returns the
\* one-character string d, a double quote or a backslash included; without
\* a delimiter the field is the token nil, which nil accepts.
C28_ListDelimiterParsable ==
  (parser = "Data::serialize" /\ buf.type = "List")
  => IF buf.delimiter = <<>>
     THEN /\ ListDelimiterField = <<110, 105, 108>>
          /\ nil(ListDelimiterField) = Ok(ListDelimiterField, <<>>)
     ELSE quoted(ListDelimiterField) = Ok(buf.delimiter, <<>>)

\* It holds for every delimiter but the double quote and the backslash.
ListDelimiterParsableUnlessSpecial ==
  (parser = "Data::serialize" /\ buf.type = "List"
   /\ buf.delimiter \notin {<<DQUOTE>>, <<BACKSLASH>>})
  => IF buf.delimiter = <<>>
     THEN /\ ListDelimiterField = <<110, 105, 108>>
          /\ nil(ListDelimiterField) = Ok(ListDelimiterField, <<>>)
     ELSE quoted(ListDelimiterField) = Ok(buf.delimiter, <<>>)

\* The double quote is written as three double quotes, of which quoted
\* reads the first two as the empty string; the backslash is written as
\* "\", which quoted reads as an unfinished string.
SpecialDelimiterUnescaped ==
  (parser = "Data::serialize" /\ buf.type = "List")
  => /\ buf.delimiter = <<DQUOTE>>
        => /\ ListDelimiterField = <<DQUOTE, DQUOTE, DQUOTE>>
           /\ quoted(ListDelimiterField) = Ok(<<>>, <<DQUOTE>>)
     /\ buf.delimiter = <<BACKSLASH>>
        => /\ ListDelimiterField = <<DQUOTE, BACKSLASH, DQUOTE>>
           /\ quoted(ListDelimiterField) = Incomplete

----------------------------------------------------------------------------
\* C29 (as stated): every run that astring accepts in its bare-atom branch
\* (the first byte is an ASTRING-CHAR and a byte has ended the run) holds
\* bytes satisfying is_atom_char only, and the Atom construction unwrapped
\* there does not fail, inputs holding ] included.
C29_AStringAtomValidity ==
  (/\ parser = "astring"
   /\ buf # <<>>
   /\ is_astring_char(buf[1])
   /\ RunLen(AStringChars, buf) < Len(buf))
  => /\ \A k \in 1..RunLen(AStringChars, buf) : is_atom_char(buf[k])
     /\ out # Panic
     /\ out.kind = "Ok"

\* The construction fails exactly on the runs that hold ].
AtomConstructionFailsOnBracket ==
  (/\ parser = "astring"
   /\ buf # <<>>
   /\ is_astring_char(buf[1])
   /\ RunLen(AStringChars, buf) < Len(buf))
  => (out = Panic <=> \E k \in 1..RunLen(AStringChars, buf) : buf[k] = RBRACKET)

----------------------------------------------------------------------------
\* C30: section_msgtext never returns PartNumber or Mime, section_text
\* never returns PartNumber, and section_spec and section never reach
\* unreachable!().
C30_UnreachableNeverExecuted ==
  /\ (parser = "section_msgtext" /\ out.kind = "Ok")
     => out.val.ps \in {"Header", "HeaderFields", "HeaderFieldsNot", "Text"}
  /\ (parser = "section_text" /\ out.kind = "Ok")
     => out.val.ps \in {"Header", "HeaderFields", "HeaderFieldsNot", "Text", "Mime"}
  /\ parser \in {"section_spec", "section"} => out # Panic

\* section_spec met MIME without a part path and refused it.
C30_Witness ==
  /\ parser = "section_spec"
  /\ Len(buf) > 4
  /\ Take(buf, 4) = <<77, 73, 77, 69>>
  /\ out = Error

====
